---- MODULE Spec2Model ----
(***************************************************************************)
(* A model of the peer networking engine of ackintosh/ray:                 *)
(*   - the per-connection RPC handler (src/src/rpc/handler.rs),            *)
(*   - the peer manager and the part of the swarm it drives                *)
(*     (src/src/peer_manager/mod.rs, src/src/peer_manager/behaviour.rs),   *)
(*   - STATUS validation (src/src/network.rs, src/src/behaviour.rs,        *)
(*     src/src/beacon_chain.rs).                                           *)
(*   - the sync manager and range sync (src/src/sync/mod.rs,               *)
(*     src/src/sync/range_sync.rs, src/src/sync/chain_collection.rs,       *)
(*     src/src/sync/syncing_chain.rs, src/src/sync/network_context.rs).    *)
(* Spec is the handler of one connection; SpecNet is the peer manager      *)
(* together with the STATUS handling of the network service;               *)
(* SpecSyncManager is the sync manager receiving AddPeer; SpecChains is    *)
(* the chain collection with its syncing chains.                           *)
(***************************************************************************)
EXTENDS Integers, Sequences, FiniteSets, TLC

(***************************************************************************)
(* Bounds of the model.                                                    *)
(***************************************************************************)
\* the clock of the handler specification stops here
MaxTime == 15
\* substreams of one connection, outbound requests accepted plus inbound
\* substreams negotiated
MaxSubstreams == 3
\* responses queued on one inbound substream
MaxResponses == 1

(***************************************************************************)
(* Program constants.                                                      *)
(***************************************************************************)
SHUTDOWN_TIMEOUT_SECS == 15

\* the clock advances by one of these steps (seconds)
TickSteps == {5}

\* Id: the network service sends STATUS and GOODBYE as RequestId::Internal
\* and the requests of the application as RequestId::Application
InternalIds == {"Internal"}
ApplicationIds == {"Application"}
\* requests that arrive through InstructionToHandler::Request
RequestKinds == {"BlocksByRange"}
\* requests a remote can negotiate on an inbound substream
InboundKinds == {"Status", "Goodbye"}
\* what polling a send-and-close future of an inbound substream gives
SendOutcomes == {"Ok", "Err", "Pending"}
\* what polling a tracked outbound substream gives, Pending apart
StreamOutcomes == {"Success", "Error", "StreamTermination", "Closed"}

NoDeadline == -1

\* poll_ret between two calls of poll
NoReturn == [type |-> "None"]

VARIABLES
    \* ---- Handler (one connection) ----
    state,                 \* HandlerState tag
    deadline,              \* the Sleep held by HandlerState::ShuttingDown
    dial_queue,            \* Handler.dial_queue
    out_events,            \* Handler.out_events
    inbound_substreams,    \* Handler.inbound_substreams
    inbound_substream_id,  \* Handler.inbound_substream_id.current_id
    outbound_substreams,   \* Handler.outbound_substreams
    outbound_substream_id, \* Handler.outbound_substream_id.current_id
    negotiating,           \* outbound substreams the swarm is negotiating
    poll_ret,              \* what the last Handler::poll returned
    panicked,              \* a todo!() was reached
    timer_closes,          \* history: CloseConnection returned by the timer branch
    decode_errors,         \* log: outbound substreams whose decode error the call logged
    now,                   \* the clock (seconds)
    \* ---- PeerDB, PeerManager and the swarm it drives ----
    peer_db,               \* PeerDB.peers
    events,                \* PeerManager.events
    heartbeat,             \* PeerManager.heartbeat: when the next tick is due
    status_peers,          \* PeerManager.status_peers: when each entry expires
    peers_to_dial,         \* PeerManager.peers_to_dial
    pm_ret,                \* what the last PeerManager::poll returned
    established,           \* swarm: established connections of each peer
    dialing,               \* swarm: dial attempts in flight to each peer
    \* ---- the network service ----
    sync_sender,           \* the channel to the sync manager
    rpc_events,            \* rpc Behaviour.events
    inputs,                \* history: stimuli the network has given so far
    statusd_at,            \* history: when statusd_peer was last called
    \* ---- the local chain and STATUS validation ----
    chain,                 \* the local chain view
    relevance,             \* the last relevance check and its result
    \* ---- the sync manager ----
    range_chains,          \* RangeSync.chains
    sync_panicked,         \* the sync manager task has panicked
    sync_last,             \* history: the last add_peer of the sync manager
    \* ---- the chain collection and its network context ----
    collection_state,      \* ChainCollection.state
    finalized_chains,      \* ChainCollection.finalized_chains
    next_request_id,       \* SyncNetworkContext.request_id
    network_send,          \* the channel to the network service
    batch_log,             \* history: the batches sent, in order
    \* ---- discovery ----
    active_queries,        \* discovery Behaviour.active_queries: lookups unresolved
    found_peers,           \* log: the list the last FoundPeers step handled
    \* ---- swarm: the connections ----
    closing,               \* connections of each peer the swarm was told to close
    connected_once         \* peers a ConnectionEstablished was reported for

hvars == <<state, deadline, dial_queue, out_events, inbound_substreams,
           inbound_substream_id, outbound_substreams, outbound_substream_id,
           negotiating, poll_ret, panicked, timer_closes, decode_errors>>

nvars == <<peer_db, events, heartbeat, status_peers, peers_to_dial, pm_ret,
           established, dialing, sync_sender, rpc_events, inputs,
           statusd_at>>

cvars == <<chain, relevance>>

svars == <<range_chains, sync_panicked, sync_last, collection_state,
           finalized_chains, next_request_id, network_send, batch_log>>

dvars == <<active_queries, found_peers>>
wvars == <<closing, connected_once>>

vars == <<hvars, now, nvars, cvars, svars, dvars, wvars>>

(***************************************************************************)
(* Helpers.                                                                *)
(***************************************************************************)
\* lighthouse OutboundRequest::expected_responses as used by
\* on_fully_negotiated_outbound: GOODBYE is fire-and-forget
expected_responses(kind) == IF kind = "Goodbye" THEN 0 ELSE 1

\* HashMap::new()
EmptyMap == [k \in {} |-> 0]

\* HashMap::insert / HashMap::remove
MapInsert(m, k, v) == [x \in DOMAIN m \cup {k} |-> IF x = k THEN v ELSE m[x]]
MapRemove(m, ks) == [x \in DOMAIN m \ ks |-> m[x]]

\* SmallVec::remove(0) / VecDeque::pop_front: the rest of the queue
RemoveFirst(q) == SubSeq(q, 2, Len(q))

\* i-th element removed
RemoveAt(q, i) == SubSeq(q, 1, i - 1) \o SubSeq(q, i + 1, Len(q))

\* outbound requests accepted so far and inbound substreams negotiated so far
\* (a failed negotiation gives its place back)
Substreams ==
    Len(dial_queue) + Len(negotiating) + outbound_substream_id
        + inbound_substream_id

(***************************************************************************)
(* Handler::new                                                            *)
(***************************************************************************)
HandlerNew ==
    /\ state = "Active"
    /\ deadline = NoDeadline
    /\ dial_queue = <<>>
    /\ out_events = <<>>
    /\ inbound_substreams = EmptyMap
    /\ inbound_substream_id = 0
    /\ outbound_substreams = EmptyMap
    /\ outbound_substream_id = 0
    /\ negotiating = <<>>
    /\ poll_ret = NoReturn
    /\ panicked = FALSE
    /\ timer_closes = 0
    /\ decode_errors = {}
    /\ now = 0

(***************************************************************************)
(* Handler::send_status: pushes whatever the handler state is.             *)
(***************************************************************************)
send_status(request_id) ==
    dial_queue' = Append(dial_queue,
                         [id |-> request_id, request |-> "Status"])

(***************************************************************************)
(* Handler::shutdown(reason): reason is <<>> for None, <<id>> for Some.    *)
(***************************************************************************)
\* shutdown without its early return: every request re-arms the deadline
shutdown_unguarded(reason) ==
    /\ dial_queue' =
          IF reason # <<>>
          THEN Append(dial_queue, [id |-> reason[1], request |-> "Goodbye"])
          ELSE dial_queue
    /\ state' = "ShuttingDown"
    /\ deadline' = now + SHUTDOWN_TIMEOUT_SECS

shutdown(reason) ==
    IF state # "Active"
    THEN UNCHANGED <<state, deadline, dial_queue>>
    ELSE /\ dial_queue' =
               IF reason # <<>>
               THEN Append(dial_queue,
                           [id |-> reason[1], request |-> "Goodbye"])
               ELSE dial_queue
         /\ state' = "ShuttingDown"
         /\ deadline' = now + SHUTDOWN_TIMEOUT_SECS

(***************************************************************************)
(* Handler::send_request                                                   *)
(***************************************************************************)
send_request(request_id, kind) ==
    IF state = "Active"
    THEN dial_queue' = Append(dial_queue,
                              [id |-> request_id, request |-> kind])
    ELSE UNCHANGED dial_queue

(***************************************************************************)
(* Handler::send_response                                                  *)
(***************************************************************************)
send_response(substream_id, response) ==
    IF substream_id \notin DOMAIN inbound_substreams
    THEN UNCHANGED inbound_substreams
    ELSE inbound_substreams' =
           [inbound_substreams EXCEPT ![substream_id].responses_to_send =
                Append(@, response)]

(***************************************************************************)
(* Handler::on_behaviour_event, one action per InstructionToHandler.       *)
(* A connection carries at most MaxSubstreams substreams.                  *)
(***************************************************************************)
OnBehaviourStatus(request_id) ==
    /\ ~panicked
    /\ Substreams < MaxSubstreams
    /\ send_status(request_id)
    /\ poll_ret' = NoReturn
    /\ UNCHANGED <<state, deadline, out_events, inbound_substreams,
                   inbound_substream_id, outbound_substreams,
                   outbound_substream_id, negotiating, panicked,
                   timer_closes, now>>
    /\ decode_errors' = {}
    /\ UNCHANGED <<nvars, cvars, svars, dvars, wvars>>

OnBehaviourGoodbye(request_id) ==
    /\ ~panicked
    /\ Substreams < MaxSubstreams
    /\ shutdown(<<request_id>>)
    /\ poll_ret' = NoReturn
    /\ UNCHANGED <<out_events, inbound_substreams, inbound_substream_id,
                   outbound_substreams, outbound_substream_id, negotiating,
                   panicked, timer_closes, now>>
    /\ decode_errors' = {}
    /\ UNCHANGED <<nvars, cvars, svars, dvars, wvars>>

OnBehaviourRequest(request_id, kind) ==
    /\ ~panicked
    /\ Substreams < MaxSubstreams
    /\ send_request(request_id, kind)
    /\ poll_ret' = NoReturn
    /\ UNCHANGED <<state, deadline, out_events, inbound_substreams,
                   inbound_substream_id, outbound_substreams,
                   outbound_substream_id, negotiating, panicked,
                   timer_closes, now>>
    /\ decode_errors' = {}
    /\ UNCHANGED <<nvars, cvars, svars, dvars, wvars>>

OnBehaviourResponse(substream_id, response) ==
    /\ ~panicked
    /\ substream_id \in DOMAIN inbound_substreams =>
           Len(inbound_substreams[substream_id].responses_to_send)
               < MaxResponses
    /\ send_response(substream_id, response)
    /\ poll_ret' = NoReturn
    /\ UNCHANGED <<state, deadline, dial_queue, out_events,
                   inbound_substream_id, outbound_substreams,
                   outbound_substream_id, negotiating, panicked,
                   timer_closes, now>>
    /\ decode_errors' = {}
    /\ UNCHANGED <<nvars, cvars, svars, dvars, wvars>>

(***************************************************************************)
(* Handler::on_fully_negotiated_inbound                                    *)
(***************************************************************************)
\* on_fully_negotiated_inbound returning right after shutdown(None)
on_fully_negotiated_inbound_silent_goodbye(request) ==
    /\ inbound_substream_id' = inbound_substream_id + 1
    /\ inbound_substreams' =
           MapInsert(inbound_substreams, inbound_substream_id,
                     [state |-> "Idle", responses_to_send |-> <<>>])
    /\ IF request = "Goodbye"
       THEN shutdown(<<>>) /\ UNCHANGED out_events
       ELSE /\ UNCHANGED <<state, deadline, dial_queue>>
            /\ out_events' = Append(out_events,
                                    [type |-> "Request",
                                     substream_id |-> inbound_substream_id,
                                     request |-> request])

on_fully_negotiated_inbound(request) ==
    /\ inbound_substream_id' = inbound_substream_id + 1
    /\ inbound_substreams' =
           MapInsert(inbound_substreams, inbound_substream_id,
                     [state |-> "Idle", responses_to_send |-> <<>>])
    /\ IF request = "Goodbye"
       THEN shutdown(<<>>)
       ELSE UNCHANGED <<state, deadline, dial_queue>>
    /\ out_events' = Append(out_events,
                            [type |-> "Request",
                             substream_id |-> inbound_substream_id,
                             request |-> request])

OnFullyNegotiatedInbound(request) ==
    /\ ~panicked
    /\ Substreams < MaxSubstreams
    /\ on_fully_negotiated_inbound(request)
    /\ poll_ret' = NoReturn
    /\ UNCHANGED <<outbound_substreams, outbound_substream_id, negotiating,
                   panicked, timer_closes, now>>
    /\ decode_errors' = {}
    /\ UNCHANGED <<nvars, cvars, svars, dvars, wvars>>

(***************************************************************************)
(* Handler::on_fully_negotiated_outbound: the swarm finished negotiating   *)
(* the i-th substream it had been asked to open. outbound.info is the      *)
(* request; origin_id is history the handler does not have.                *)
(***************************************************************************)
\* on_fully_negotiated_outbound with a generator that hands out its id again
on_fully_negotiated_outbound_same_id(info) ==
    /\ outbound_substream_id' = outbound_substream_id
    /\ outbound_substreams' =
           IF expected_responses(info.request) > 0
           THEN MapInsert(outbound_substreams, outbound_substream_id, info)
           ELSE outbound_substreams

on_fully_negotiated_outbound(info) ==
    /\ outbound_substream_id' = outbound_substream_id + 1
    /\ outbound_substreams' =
           IF expected_responses(info.request) > 0
           THEN MapInsert(outbound_substreams, outbound_substream_id, info)
           ELSE outbound_substreams

OnFullyNegotiatedOutbound(i) ==
    /\ ~panicked
    /\ i \in 1..Len(negotiating)
    /\ on_fully_negotiated_outbound(negotiating[i])
    /\ negotiating' = RemoveAt(negotiating, i)
    /\ poll_ret' = NoReturn
    /\ UNCHANGED <<state, deadline, dial_queue, out_events,
                   inbound_substreams, inbound_substream_id,
                   panicked, timer_closes, now>>
    /\ decode_errors' = {}
    /\ UNCHANGED <<nvars, cvars, svars, dvars, wvars>>

(***************************************************************************)
(* ConnectionEvent::DialUpgradeError: logged, the handler keeps no trace.  *)
(***************************************************************************)
OnDialUpgradeError(i) ==
    /\ ~panicked
    /\ i \in 1..Len(negotiating)
    /\ negotiating' = RemoveAt(negotiating, i)
    /\ poll_ret' = NoReturn
    /\ UNCHANGED <<state, deadline, dial_queue, out_events,
                   inbound_substreams, inbound_substream_id,
                   outbound_substreams, outbound_substream_id,
                   panicked, timer_closes, now>>
    /\ decode_errors' = {}
    /\ UNCHANGED <<nvars, cvars, svars, dvars, wvars>>

(***************************************************************************)
(* Handler::poll. The branches are tried in the order of the code and the  *)
(* first that applies returns.                                             *)
(***************************************************************************)
NotifyBehaviour(event) == [type |-> "NotifyBehaviour", event |-> event]

CloseConnection == [type |-> "CloseConnection", error |-> "Disconnected"]

\* Sleep::poll of the shutdown deadline
DeadlineElapsed == state = "ShuttingDown" /\ now >= deadline

\* the timer branch forgetting to deactivate the handler
PollShutdownTimer_stays_shutting_down ==
    /\ poll_ret' = NotifyBehaviour(CloseConnection)
    /\ timer_closes' = timer_closes + 1
    /\ decode_errors' = {}
    /\ UNCHANGED <<state, deadline, dial_queue, out_events,
                   inbound_substreams, inbound_substream_id,
                   outbound_substreams, outbound_substream_id, negotiating,
                   panicked>>

\* 1. the shutdown timer ran out
PollShutdownTimer ==
    /\ state' = "Deactivated"
    /\ deadline' = NoDeadline
    /\ poll_ret' = NotifyBehaviour(CloseConnection)
    /\ timer_closes' = timer_closes + 1
    /\ decode_errors' = {}
    /\ UNCHANGED <<dial_queue, out_events, inbound_substreams,
                   inbound_substream_id, outbound_substreams,
                   outbound_substream_id, negotiating, panicked>>

\* the dial queue served from its newest entry
PollDialQueue_newest_first ==
    /\ dial_queue' = SubSeq(dial_queue, 1, Len(dial_queue) - 1)
    /\ negotiating' =
           Append(negotiating,
                  [request |-> dial_queue[Len(dial_queue)].request,
                   origin_id |-> dial_queue[Len(dial_queue)].id])
    /\ poll_ret' = [type |-> "OutboundSubstreamRequest",
                    request |-> dial_queue[Len(dial_queue)].request]
    /\ UNCHANGED <<state, deadline, out_events, inbound_substreams,
                   inbound_substream_id, outbound_substreams,
                   outbound_substream_id, panicked, timer_closes>>
    /\ decode_errors' = {}

\* 2. establish one outbound substream: the id queued with the request is
\*    dropped (`let (_id, request) = self.dial_queue.remove(0)`)
PollDialQueue ==
    /\ dial_queue' = RemoveFirst(dial_queue)
    /\ negotiating' =
           Append(negotiating, [request |-> dial_queue[1].request,
                                origin_id |-> dial_queue[1].id])
    /\ poll_ret' = [type |-> "OutboundSubstreamRequest",
                    request |-> dial_queue[1].request]
    /\ UNCHANGED <<state, deadline, out_events, inbound_substreams,
                   inbound_substream_id, outbound_substreams,
                   outbound_substream_id, panicked, timer_closes>>
    /\ decode_errors' = {}

\* 3. inform the behaviour of one queued event
PollOutEvents ==
    /\ out_events' = RemoveFirst(out_events)
    /\ poll_ret' = NotifyBehaviour(out_events[1])
    /\ UNCHANGED <<state, deadline, dial_queue, inbound_substreams,
                   inbound_substream_id, outbound_substreams,
                   outbound_substream_id, negotiating, panicked,
                   timer_closes>>
    /\ decode_errors' = {}

\* 4. drive the inbound substreams; sent[id] is what the send-and-close
\*    future of substream id gives when it is polled
InboundRemoved(sent) ==
    {id \in DOMAIN inbound_substreams :
        /\ \/ inbound_substreams[id].state = "Busy"
           \/ inbound_substreams[id].responses_to_send # <<>>
        /\ sent[id] # "Pending"}

\* a drive of the inbound substreams that starts the send without taking the
\* response off the queue
DriveInbound_keeping_queue(sent) ==
    [id \in DOMAIN inbound_substreams \ InboundRemoved(sent) |->
        IF inbound_substreams[id].state = "Idle"
           /\ inbound_substreams[id].responses_to_send # <<>>
        THEN [state |-> "Busy",
              responses_to_send |-> inbound_substreams[id].responses_to_send]
        ELSE inbound_substreams[id]]

DriveInbound(sent) ==
    [id \in DOMAIN inbound_substreams \ InboundRemoved(sent) |->
        IF inbound_substreams[id].state = "Idle"
           /\ inbound_substreams[id].responses_to_send # <<>>
        THEN [state |-> "Busy",
              responses_to_send |->
                  RemoveFirst(inbound_substreams[id].responses_to_send)]
        ELSE inbound_substreams[id]]

\* 5. drive the outbound substreams: the first stream that is ready with
\*    something other than a decode error ends the poll
PollOutboundReady(id, outcome) ==
    /\ id \in DOMAIN outbound_substreams
    /\ \/ /\ outcome = "Success"
          /\ poll_ret' = NotifyBehaviour(
                 [type |-> "Response",
                  response |-> outbound_substreams[id].request])
          /\ UNCHANGED <<outbound_substreams, panicked>>
       \/ /\ outcome \in {"Error", "StreamTermination"}
          /\ panicked' = TRUE
          /\ UNCHANGED <<outbound_substreams, poll_ret>>
       \/ /\ outcome = "Closed"
          /\ outbound_substreams' = MapRemove(outbound_substreams, {id})
          /\ poll_ret' = NotifyBehaviour(CloseConnection)
          /\ UNCHANGED panicked

PollOutboundPending ==
    /\ poll_ret' = [type |-> "Pending"]
    /\ UNCHANGED <<outbound_substreams, panicked>>

\* Poll::Ready(Some(Err(e))) of the streams in errors: the error is logged
\* and the loop goes on to the next stream
PollOutboundDecodeErrors(errors) ==
    decode_errors' = errors

\* the outcomes of the send-and-close futures: a substream that is Idle with
\* nothing queued has no future to poll
InboundOutcomes ==
    {sent \in [DOMAIN inbound_substreams -> SendOutcomes] :
        \A id \in DOMAIN inbound_substreams :
            (/\ inbound_substreams[id].state = "Idle"
             /\ inbound_substreams[id].responses_to_send = <<>>)
                => sent[id] = "Pending"}

\* a drive of the substreams that drops an outbound stream on a decode error
\* and asks for the connection to be closed
PollSubstreams_closing_on_decode_error ==
    /\ \E sent \in InboundOutcomes :
           inbound_substreams' = DriveInbound(sent)
    /\ \E errors \in SUBSET DOMAIN outbound_substreams :
           /\ decode_errors' = errors
           /\ outbound_substreams' = MapRemove(outbound_substreams, errors)
           /\ poll_ret' = IF errors = {} THEN [type |-> "Pending"]
                          ELSE NotifyBehaviour(CloseConnection)
    /\ UNCHANGED <<state, deadline, dial_queue, out_events,
                   inbound_substream_id, outbound_substream_id, negotiating,
                   timer_closes, panicked>>

PollSubstreams ==
    /\ \E sent \in InboundOutcomes :
           inbound_substreams' = DriveInbound(sent)
    /\ \/ \E id \in DOMAIN outbound_substreams, outcome \in StreamOutcomes :
              /\ PollOutboundReady(id, outcome)
              /\ \E errors \in SUBSET (DOMAIN outbound_substreams \ {id}) :
                     PollOutboundDecodeErrors(errors)
       \/ /\ PollOutboundPending
          /\ \E errors \in SUBSET DOMAIN outbound_substreams :
                 PollOutboundDecodeErrors(errors)
    /\ UNCHANGED <<state, deadline, dial_queue, out_events,
                   inbound_substream_id, outbound_substream_id, negotiating,
                   timer_closes>>

poll ==
    IF DeadlineElapsed THEN PollShutdownTimer
    ELSE IF dial_queue # <<>> THEN PollDialQueue
    ELSE IF out_events # <<>> THEN PollOutEvents
    ELSE PollSubstreams

Poll ==
    /\ ~panicked
    /\ poll
    /\ UNCHANGED <<now, nvars, cvars, svars, dvars, wvars>>

(***************************************************************************)
(* Time passes.                                                            *)
(***************************************************************************)
Tick(d) ==
    /\ ~panicked
    /\ now + d <= MaxTime
    /\ now' = now + d
    /\ poll_ret' = NoReturn
    /\ UNCHANGED <<state, deadline, dial_queue, out_events,
                   inbound_substreams, inbound_substream_id,
                   outbound_substreams, outbound_substream_id, negotiating,
                   panicked, timer_closes>>
    /\ decode_errors' = {}
    /\ UNCHANGED <<nvars, cvars, svars, dvars, wvars>>

(***************************************************************************)
(* The local chain and the relevance of a remote STATUS.                   *)
(***************************************************************************)
MaxSlot == 1

Slots == 0..MaxSlot

\* the slot clock cannot be read (before genesis)
NoSlot == -1

ForkDigests == {"fd1", "fd2"}

Epochs == {0, 1}

\* Hash256::zero()
ZeroRoot == "0x00"

Roots == {ZeroRoot, "ra"}

HeadRoots == {"ha", "hb"}

\* the local chain: fork digest, slot clock, canonical head and finalized
\* checkpoint; the head is never ahead of a readable clock
Chains ==
    { c \in [fork_digest : ForkDigests, slot : Slots \cup {NoSlot},
             head_slot : Slots, head_root : HeadRoots,
             finalized_epoch : Epochs, finalized_root : Roots] :
         c.slot # NoSlot => c.head_slot <= c.slot }

\* StatusMessage
Statuses ==
    [fork_digest : ForkDigests, finalized_root : Roots,
     finalized_epoch : Epochs, head_root : HeadRoots, head_slot : Slots]

\* status_message(chain): the finalized root of the genesis checkpoint is
\* aliased to zero
status_message(c) ==
    [fork_digest     |-> c.fork_digest,
     finalized_root  |-> IF c.finalized_epoch = 0 THEN ZeroRoot
                         ELSE c.finalized_root,
     finalized_epoch |-> c.finalized_epoch,
     head_root       |-> c.head_root,
     head_slot       |-> c.head_slot]

\* BeaconChain::create_status_message: no aliasing
create_status_message(c) ==
    [fork_digest     |-> c.fork_digest,
     finalized_root  |-> c.finalized_root,
     finalized_epoch |-> c.finalized_epoch,
     head_root       |-> c.head_root,
     head_slot       |-> c.head_slot]

\* a relevance check that compares the remote head with the local head
check_peer_relevance_against_head(c, remote_status) ==
    LET local_status == status_message(c) IN
    IF local_status.fork_digest # remote_status.fork_digest THEN FALSE
    ELSE IF remote_status.head_slot > local_status.head_slot THEN FALSE
    ELSE TRUE

\* a relevance check that does not look at the fork digest
check_peer_relevance_any_fork(c, remote_status) ==
    IF c.slot = NoSlot THEN "Panic"
    ELSE IF remote_status.head_slot > c.slot THEN FALSE
    ELSE TRUE

\* Network::check_peer_relevance: TRUE, FALSE, or "Panic" when the slot
\* clock cannot be read
check_peer_relevance(c, remote_status) ==
    LET local_status == status_message(c) IN
    IF local_status.fork_digest # remote_status.fork_digest THEN FALSE
    ELSE IF c.slot = NoSlot THEN "Panic"
    ELSE IF remote_status.head_slot > c.slot THEN FALSE
    ELSE TRUE

\* BeaconChain::is_relevant
is_relevant(c, remote_status) ==
    LET local_status == create_status_message(c) IN
    IF local_status.fork_digest # remote_status.fork_digest THEN FALSE
    ELSE IF c.slot = NoSlot THEN "Panic"
    ELSE IF remote_status.head_slot > c.slot THEN FALSE
    ELSE TRUE

NoRelevance == [by |-> "None"]

\* one call of Network::check_peer_relevance
CheckPeerRelevance(remote_status) ==
    /\ relevance' = [by |-> "check_peer_relevance", remote |-> remote_status,
                     result |-> check_peer_relevance(chain, remote_status)]
    /\ UNCHANGED <<hvars, now, nvars, chain, svars, dvars, wvars>>

\* one call of BeaconChain::is_relevant
IsRelevant(remote_status) ==
    /\ relevance' = [by |-> "is_relevant", remote |-> remote_status,
                     result |-> is_relevant(chain, remote_status)]
    /\ UNCHANGED <<hvars, now, nvars, chain, svars, dvars, wvars>>

(***************************************************************************)
(* PeerDB                                                                  *)
(***************************************************************************)
Peers == {"p1", "p2"}

\* the HashMap has no entry for the peer
NoPeer == [tag |-> "None"]

\* ConnectedPoint::Dialer.address: the address the peer was dialed at
DialerAddress(peer_id) == <<"address", peer_id>>

\* ConnectedPoint::Listener.send_back_addr: the address the peer came from
SendBackAddress(peer_id) == <<"send_back_addr", peer_id>>

\* PeerInfo::new
PeerInfoNew(listening_address) ==
    [tag |-> "PeerInfo", listening_address |-> listening_address,
     sync_status |-> "Unknown",
     connection_status |-> [tag |-> "Connected"]]

\* PeerDB::add_peer: an existing entry is overwritten
add_peer(db, peer_id, address) ==
    [db EXCEPT ![peer_id] = PeerInfoNew(address)]

\* PeerDB::update_sync_status: a peer that is not found is only logged
update_sync_status(db, peer_id, sync_status) ==
    IF db[peer_id] = NoPeer THEN db
    ELSE [db EXCEPT ![peer_id].sync_status = sync_status]

\* an update_connection_status that drops the record of a disconnected peer
update_connection_status_forgetting(db, peer_id, connection_status) ==
    IF db[peer_id] = NoPeer THEN db
    ELSE IF connection_status.tag = "Disconnected"
         THEN [db EXCEPT ![peer_id] = NoPeer]
         ELSE [db EXCEPT ![peer_id].connection_status = connection_status]

\* PeerDB::update_connection_status: a peer that is not found is only logged
update_connection_status(db, peer_id, connection_status) ==
    IF db[peer_id] = NoPeer THEN db
    ELSE [db EXCEPT ![peer_id].connection_status = connection_status]

\* PeerDB::active_peer_count: the peers whose connection status is Connected
active_peer_count(db) ==
    Cardinality({p \in Peers : /\ db[p] # NoPeer
                               /\ db[p].connection_status.tag = "Connected"})

(***************************************************************************)
(* PeerManager                                                             *)
(***************************************************************************)
HEARTBEAT_INTERVAL == 30

STATUS_INTERVAL == 300

\* PeerManager.target_peers_count
target_peers_count == 1

\* HashSetDelay has no entry for the peer
NoTimer == -1

MaxNetTime == 300

NetTickSteps == {300}

\* stimuli the network gives: discovered peers, inbound connections and
\* received STATUS messages
MaxInputs == 3

\* established connections of one peer
MaxConnections == 2

\* Poll::Pending
Pending == [type |-> "Pending"]

NeedMorePeers == [type |-> "NeedMorePeers"]

PeerConnectedIncoming(peer_id) ==
    [type |-> "PeerConnectedIncoming", peer_id |-> peer_id]

PeerConnectedOutgoing(peer_id) ==
    [type |-> "PeerConnectedOutgoing", peer_id |-> peer_id]

SendStatus(peer_id) == [type |-> "SendStatus", peer_id |-> peer_id]

DisconnectPeer(peer_id, reason) ==
    [type |-> "DisconnectPeer", peer_id |-> peer_id, reason |-> reason]

\* ToSwarm::GenerateEvent
GenerateEvent(event) == [type |-> "GenerateEvent", event |-> event]

\* ToSwarm::Dial with PeerCondition::Disconnected
Dial(peer_id) ==
    [type |-> "Dial", peer_id |-> peer_id, condition |-> "Disconnected"]

\* discovery Behaviour::new followed by the discover_peers of
\* build_network_behaviour: one lookup is under way
DiscoveryNew ==
    /\ active_queries = 1
    /\ found_peers = <<>>

\* a has_active_queries that never sees a lookup
has_active_queries_never == FALSE

\* discovery Behaviour::has_active_queries
has_active_queries == active_queries > 0

\* discovery Behaviour::discover_peers: one more lookup is pushed
discover_peers(queries) == queries + 1

\* PeerManager::new, PeerDB::new, rpc Behaviour::new, and a swarm without
\* connections
NetNew ==
    /\ peer_db = [p \in Peers |-> NoPeer]
    /\ events = <<>>
    /\ heartbeat = 0
    /\ status_peers = [p \in Peers |-> NoTimer]
    /\ statusd_at = [p \in Peers |-> NoTimer]
    /\ peers_to_dial = <<>>
    /\ pm_ret = NoReturn
    /\ established = [p \in Peers |-> 0]
    /\ closing = [p \in Peers |-> 0]
    /\ connected_once = {}
    /\ dialing = [p \in Peers |-> 0]
    /\ sync_sender = <<>>
    /\ rpc_events = <<>>
    /\ inputs = 0

\* a need_more_peers that also asks at the target
need_more_peers_at_target == active_peer_count(peer_db) <= target_peers_count

\* PeerManager::need_more_peers
need_more_peers == active_peer_count(peer_db) < target_peers_count

\* PeerManager::dial_peer
dial_peer(peer_id) == peers_to_dial' = Append(peers_to_dial, peer_id)

\* PeerManager::statusd_peer: HashSetDelay::insert restarts the timer of a
\* peer that is already there
statusd_peer(peer_id) ==
    /\ status_peers' = [status_peers EXCEPT ![peer_id] = now + STATUS_INTERVAL]
    /\ statusd_at' = [statusd_at EXCEPT ![peer_id] = now]

\* lighthouse_network::rpc::GoodbyeReason
GoodbyeReasons == {"ClientShutdown", "IrrelevantNetwork", "Fault"}

\* a goodbye that marks the peer irrelevant whatever the reason
goodbye_always_irrelevant(peer_id, reason) ==
    /\ peer_db' =
           update_connection_status(
               update_sync_status(peer_db, peer_id, "IrrelevantPeer"),
               peer_id, [tag |-> "Disconnecting"])
    /\ events' = Append(events, DisconnectPeer(peer_id, reason))

\* PeerManager::goodbye
goodbye(peer_id, reason) ==
    /\ peer_db' =
           update_connection_status(
               IF reason = "IrrelevantNetwork"
               THEN update_sync_status(peer_db, peer_id, "IrrelevantPeer")
               ELSE peer_db,
               peer_id, [tag |-> "Disconnecting"])
    /\ events' = Append(events, DisconnectPeer(peer_id, reason))

\* a lookup resolves with a peer: discovery Behaviour::poll returns
\* DiscoveryEvent::FoundPeers and Network::handle_discovery_event starts the
\* next lookup if more peers are needed and queues the found peer to be dialed
DialPeer(peer_id) ==
    /\ inputs < MaxInputs
    /\ inputs' = inputs + 1
    /\ active_queries > 0
    /\ active_queries' = IF need_more_peers
                         THEN discover_peers(active_queries - 1)
                         ELSE active_queries - 1
    /\ found_peers' = found_peers
    /\ dial_peer(peer_id)
    /\ pm_ret' = NoReturn
    /\ UNCHANGED <<peer_db, events, heartbeat, status_peers, statusd_at,
                   established, dialing, sync_sender, rpc_events>>
    /\ UNCHANGED <<hvars, now, cvars, svars, wvars>>

\* peers one lookup finds
MaxFound == 2

\* the lists of peers a DiscoveryEvent::FoundPeers carries: a lookup without
\* results returns Pending, not an event
FoundLists == UNION {[1..n -> Peers] : n \in 1..MaxFound}

\* a handle_discovery_event that dials only while more peers are needed
FoundPeers_dialing_when_needed(peer_ids) ==
    /\ inputs < MaxInputs
    /\ inputs' = inputs + 1
    /\ active_queries > 0
    /\ found_peers' = peer_ids
    /\ IF need_more_peers
       THEN /\ active_queries' = discover_peers(active_queries - 1)
            /\ peers_to_dial' = peers_to_dial \o peer_ids
       ELSE /\ active_queries' = active_queries - 1
            /\ peers_to_dial' = peers_to_dial
    /\ pm_ret' = NoReturn
    /\ UNCHANGED <<peer_db, events, heartbeat, status_peers, statusd_at,
                   established, dialing, sync_sender, rpc_events>>
    /\ UNCHANGED <<hvars, now, cvars, svars, wvars>>

\* a lookup resolves with several peers: discovery Behaviour::poll returns
\* DiscoveryEvent::FoundPeers(peers) and Network::handle_discovery_event
\* starts the next lookup if more peers are needed, then calls dial_peer for
\* each peer of the list
FoundPeers(peer_ids) ==
    /\ inputs < MaxInputs
    /\ inputs' = inputs + 1
    /\ active_queries > 0
    /\ found_peers' = peer_ids
    /\ active_queries' = IF need_more_peers
                         THEN discover_peers(active_queries - 1)
                         ELSE active_queries - 1
    /\ peers_to_dial' = peers_to_dial \o peer_ids
    /\ pm_ret' = NoReturn
    /\ UNCHANGED <<peer_db, events, heartbeat, status_peers, statusd_at,
                   established, dialing, sync_sender, rpc_events>>
    /\ UNCHANGED <<hvars, now, cvars, svars, wvars>>

\* a lookup resolves without peers: discovery Behaviour::poll returns Pending
QueryEmpty ==
    /\ active_queries > 0
    /\ active_queries' = active_queries - 1
    /\ found_peers' = found_peers
    /\ pm_ret' = NoReturn
    /\ UNCHANGED <<peer_db, events, heartbeat, status_peers, statusd_at,
                   peers_to_dial, established, dialing, sync_sender,
                   rpc_events, inputs>>
    /\ UNCHANGED <<hvars, now, cvars, svars, wvars>>

\* a lookup resolves with a QueryError: discovery Behaviour::poll returns
\* Pending
QueryFailed ==
    /\ active_queries > 0
    /\ active_queries' = active_queries - 1
    /\ found_peers' = found_peers
    /\ pm_ret' = NoReturn
    /\ UNCHANGED <<peer_db, events, heartbeat, status_peers, statusd_at,
                   peers_to_dial, established, dialing, sync_sender,
                   rpc_events, inputs>>
    /\ UNCHANGED <<hvars, now, cvars, svars, wvars>>

\* FromSwarm::ConnectionEstablished, ConnectedPoint::Dialer: a dial in flight
\* succeeds
DialSucceeds(peer_id) ==
    /\ dialing[peer_id] > 0
    /\ established[peer_id] < MaxConnections
    /\ dialing' = [dialing EXCEPT ![peer_id] = @ - 1]
    /\ established' = [established EXCEPT ![peer_id] = @ + 1]
    /\ peer_db' = add_peer(peer_db, peer_id, DialerAddress(peer_id))
    /\ events' = Append(events, PeerConnectedOutgoing(peer_id))
    /\ connected_once' = connected_once \cup {peer_id}
    /\ pm_ret' = NoReturn
    /\ UNCHANGED <<heartbeat, status_peers, statusd_at, peers_to_dial,
                   sync_sender, rpc_events, inputs, closing>>
    /\ UNCHANGED <<hvars, now, cvars, svars, dvars>>

\* FromSwarm::DialFailure: a dial in flight fails
DialFails(peer_id) ==
    /\ dialing[peer_id] > 0
    /\ dialing' = [dialing EXCEPT ![peer_id] = @ - 1]
    /\ pm_ret' = NoReturn
    /\ UNCHANGED <<peer_db, events, heartbeat, status_peers, statusd_at,
                   peers_to_dial, established, sync_sender, rpc_events,
                   inputs>>
    /\ UNCHANGED <<hvars, now, cvars, svars, dvars, wvars>>

\* FromSwarm::ConnectionEstablished, ConnectedPoint::Listener
InboundConnection(peer_id) ==
    /\ inputs < MaxInputs
    /\ inputs' = inputs + 1
    /\ established[peer_id] < MaxConnections
    /\ established' = [established EXCEPT ![peer_id] = @ + 1]
    /\ peer_db' = add_peer(peer_db, peer_id, SendBackAddress(peer_id))
    /\ events' = Append(events, PeerConnectedIncoming(peer_id))
    /\ connected_once' = connected_once \cup {peer_id}
    /\ pm_ret' = NoReturn
    /\ UNCHANGED <<heartbeat, status_peers, statusd_at, peers_to_dial,
                   dialing, sync_sender, rpc_events, closing>>
    /\ UNCHANGED <<hvars, now, cvars, svars, dvars>>

\* a ConnectionClosed that ignores remaining_established
ConnectionClosed_ignoring_remaining(peer_id) ==
    /\ established[peer_id] > 0
    /\ established' = [established EXCEPT ![peer_id] = @ - 1]
    /\ \/ /\ closing[peer_id] > 0
          /\ closing' = [closing EXCEPT ![peer_id] = @ - 1]
       \/ /\ established[peer_id] > closing[peer_id]
          /\ closing' = closing
    /\ status_peers' = [status_peers EXCEPT ![peer_id] = NoTimer]
    /\ peer_db' = update_connection_status(
                      peer_db, peer_id,
                      [tag |-> "Disconnected", since |-> now])
    /\ pm_ret' = NoReturn
    /\ UNCHANGED <<events, heartbeat, statusd_at, peers_to_dial, dialing,
                   sync_sender, rpc_events, inputs, connected_once>>
    /\ UNCHANGED <<hvars, now, cvars, svars, dvars>>

\* FromSwarm::ConnectionClosed: a connection the swarm was told to close
\* has closed, or one of the others has (the remote closed it)
ConnectionClosed(peer_id) ==
    /\ established[peer_id] > 0
    /\ established' = [established EXCEPT ![peer_id] = @ - 1]
    /\ \/ /\ closing[peer_id] > 0
          /\ closing' = [closing EXCEPT ![peer_id] = @ - 1]
       \/ /\ established[peer_id] > closing[peer_id]
          /\ closing' = closing
    /\ IF established'[peer_id] > 0
       THEN UNCHANGED <<status_peers, peer_db>>
       ELSE /\ status_peers' = [status_peers EXCEPT ![peer_id] = NoTimer]
            /\ peer_db' = update_connection_status(
                              peer_db, peer_id,
                              [tag |-> "Disconnected", since |-> now])
    /\ pm_ret' = NoReturn
    /\ UNCHANGED <<events, heartbeat, statusd_at, peers_to_dial, dialing,
                   sync_sender, rpc_events, inputs, connected_once>>
    /\ UNCHANGED <<hvars, now, cvars, svars, dvars>>

\* a call of PeerManager::goodbye
Goodbye(peer_id, reason) ==
    /\ inputs < MaxInputs
    /\ inputs' = inputs + 1
    /\ goodbye(peer_id, reason)
    /\ pm_ret' = NoReturn
    /\ UNCHANGED <<heartbeat, status_peers, statusd_at, peers_to_dial,
                   established, dialing, sync_sender, rpc_events>>
    /\ UNCHANGED <<hvars, now, cvars, svars, dvars, wvars>>

(***************************************************************************)
(* rpc Behaviour: instructions queued for the connection handlers          *)
(***************************************************************************)
SubstreamIds == {0, 1}

\* ConnectionId of the connection a request arrived on
ConnectionIds == {1, 2}

\* NotifyHandler::Any / NotifyHandler::One(connection_id)
NotifyAny == [tag |-> "Any"]

NotifyOne(connection_id) == [tag |-> "One", connection_id |-> connection_id]

\* ToSwarm::NotifyHandler
NotifyHandler(peer_id, handler, event) ==
    [peer_id |-> peer_id, handler |-> handler, event |-> event]

\* Behaviour::send_status
rpc_send_status(q, request_id, peer_id, message) ==
    Append(q, NotifyHandler(peer_id, NotifyAny,
                  [type |-> "Status", request_id |-> request_id,
                   message |-> message]))

\* Behaviour::send_goodbye
rpc_send_goodbye(q, request_id, peer_id, reason) ==
    Append(q, NotifyHandler(peer_id, NotifyAny,
                  [type |-> "Goodbye", request_id |-> request_id,
                   reason |-> reason]))

\* a response left to any connection of the peer
rpc_send_response_any(q, peer_id, connection_id, substream_id, response) ==
    Append(q, NotifyHandler(peer_id, NotifyAny,
                  [type |-> "Response", substream_id |-> substream_id,
                   response |-> response]))

\* Behaviour::send_response
rpc_send_response(q, peer_id, connection_id, substream_id, response) ==
    Append(q, NotifyHandler(peer_id, NotifyOne(connection_id),
                  [type |-> "Response", substream_id |-> substream_id,
                   response |-> response]))

\* CloseConnection::All
CloseConnectionAll == [tag |-> "All"]

\* ToSwarm::CloseConnection { peer_id, connection }
ToSwarmCloseConnection(peer_id, connection) ==
    [peer_id |-> peer_id, handler |-> connection,
     event |-> [type |-> "CloseConnection"]]

\* Behaviour::on_connection_handler_event, ToBehaviour::CloseConnection: the
\* handler of one connection of the peer asks for the connection to be closed
HandlerCloseConnection(peer_id) ==
    /\ inputs < MaxInputs
    /\ inputs' = inputs + 1
    /\ established[peer_id] > 0
    /\ rpc_events' = Append(rpc_events,
                            ToSwarmCloseConnection(peer_id, CloseConnectionAll))
    /\ pm_ret' = NoReturn
    /\ UNCHANGED <<peer_db, events, heartbeat, status_peers, statusd_at,
                   peers_to_dial, established, dialing, sync_sender>>
    /\ UNCHANGED <<hvars, now, cvars, svars, dvars, wvars>>

\* the swarm acting on ToSwarm::CloseConnection with CloseConnection::All:
\* every established connection of the peer starts to close
close_connection(to_swarm) ==
    [closing EXCEPT ![to_swarm.peer_id] = established[to_swarm.peer_id]]

\* Behaviour::poll: the first queued instruction goes to the swarm
RpcBehaviourPoll ==
    /\ rpc_events # <<>>
    /\ rpc_events' = RemoveFirst(rpc_events)
    /\ closing' = IF rpc_events[1].event.type = "CloseConnection"
                  THEN close_connection(rpc_events[1])
                  ELSE closing
    /\ pm_ret' = NoReturn
    /\ UNCHANGED <<peer_db, events, heartbeat, status_peers, statusd_at,
                   peers_to_dial, established, dialing, sync_sender, inputs,
                   connected_once>>
    /\ UNCHANGED <<hvars, now, cvars, svars, dvars>>

(***************************************************************************)
(* PeerManager::poll, the swarm's handling of a returned Dial, and the     *)
(* network's handling of a returned event                                  *)
(***************************************************************************)
\* a handling of the peer manager's events that greets every new connection
\* with a STATUS
handle_peer_manager_event_status_to_all(event) ==
    CASE event.type \in {"PeerConnectedIncoming", "PeerConnectedOutgoing",
                         "SendStatus"} ->
             rpc_send_status(rpc_events, "Internal", event.peer_id,
                             status_message(chain))
      [] event.type = "NeedMorePeers" -> rpc_events
      [] event.type = "DisconnectPeer" ->
             rpc_send_goodbye(rpc_events, "Internal", event.peer_id,
                              event.reason)

\* Network::handle_peer_manager_event: the rpc instructions queued after it
handle_peer_manager_event(event) ==
    CASE event.type = "PeerConnectedIncoming" -> rpc_events
      [] event.type = "PeerConnectedOutgoing" ->
             rpc_send_status(rpc_events, "Internal", event.peer_id,
                             status_message(chain))
      [] event.type = "NeedMorePeers" -> rpc_events
      [] event.type = "SendStatus" ->
             rpc_send_status(rpc_events, "Internal", event.peer_id,
                             status_message(chain))
      [] event.type = "DisconnectPeer" ->
             rpc_send_goodbye(rpc_events, "Internal", event.peer_id,
                              event.reason)

\* the heartbeat after the while loop has consumed every tick that is due
\* (a missed tick is due one period after the one before it)
HeartbeatCaughtUp ==
    IF heartbeat <= now
    THEN heartbeat
           + HEARTBEAT_INTERVAL * ((now - heartbeat) \div HEARTBEAT_INTERVAL + 1)
    ELSE heartbeat

\* the entries of status_peers that have expired
Expired == {p \in Peers : status_peers[p] # NoTimer /\ status_peers[p] <= now}

\* the orders in which HashSetDelay yields the expired entries: by deadline,
\* entries with one deadline in any order
ExpiryOrders ==
    { s \in [1..Cardinality(Expired) -> Expired] :
        \A i, j \in 1..Cardinality(Expired) :
            i < j => /\ s[i] # s[j]
                     /\ status_peers[s[i]] <= status_peers[s[j]] }

\* the swarm executes ToSwarm::Dial with PeerCondition::Disconnected: the
\* dial starts unless the peer has an established connection
SwarmDial(peer_id) ==
    IF established[peer_id] = 0
    THEN dialing' = [dialing EXCEPT ![peer_id] = @ + 1]
    ELSE UNCHANGED dialing

\* the heartbeat ticks: a due tick with too few peers returns NeedMorePeers
PollHeartbeat ==
    /\ heartbeat' = heartbeat + HEARTBEAT_INTERVAL
    /\ pm_ret' = GenerateEvent(NeedMorePeers)
    /\ UNCHANGED <<events, status_peers, peers_to_dial, dialing>>

\* the first queued event is returned
PollEvents ==
    /\ heartbeat' = HeartbeatCaughtUp
    /\ pm_ret' = GenerateEvent(events[1])
    /\ events' = RemoveFirst(events)
    /\ UNCHANGED <<status_peers, peers_to_dial, dialing>>

\* the expired status timers are restarted and their SendStatus events
\* queued; then the first queued dial, if any, is returned
PollStatusAndDial ==
    /\ heartbeat' = HeartbeatCaughtUp
    /\ \E order \in ExpiryOrders :
           events' = events \o [i \in 1..Len(order) |-> SendStatus(order[i])]
    /\ status_peers' = [p \in Peers |-> IF p \in Expired
                                        THEN now + STATUS_INTERVAL
                                        ELSE status_peers[p]]
    /\ IF peers_to_dial # <<>>
       THEN /\ pm_ret' = Dial(peers_to_dial[1])
            /\ peers_to_dial' = RemoveFirst(peers_to_dial)
            /\ SwarmDial(peers_to_dial[1])
       ELSE /\ pm_ret' = Pending
            /\ UNCHANGED <<peers_to_dial, dialing>>

\* PeerManager::poll
pm_poll ==
    IF heartbeat <= now /\ need_more_peers THEN PollHeartbeat
    ELSE IF events # <<>> THEN PollEvents
    ELSE PollStatusAndDial

PeerManagerPoll ==
    /\ pm_poll
    /\ rpc_events' = IF pm_ret'.type = "GenerateEvent"
                     THEN handle_peer_manager_event(pm_ret'.event)
                     ELSE rpc_events
    /\ active_queries' = IF /\ pm_ret' = GenerateEvent(NeedMorePeers)
                            /\ ~has_active_queries
                         THEN discover_peers(active_queries)
                         ELSE active_queries
    /\ found_peers' = found_peers
    /\ UNCHANGED <<peer_db, statusd_at, established, sync_sender, inputs>>
    /\ UNCHANGED <<hvars, now, cvars, svars, wvars>>

\* time passes
NetTick(d) ==
    /\ now + d <= MaxNetTime
    /\ now' = now + d
    /\ pm_ret' = NoReturn
    /\ UNCHANGED <<peer_db, events, heartbeat, status_peers, statusd_at,
                   peers_to_dial, established, dialing, sync_sender,
                   rpc_events, inputs>>
    /\ UNCHANGED <<hvars, cvars, svars, dvars, wvars>>

(***************************************************************************)
(* The network service: a STATUS received from a peer                      *)
(***************************************************************************)
\* From<StatusMessage> for SyncInfo
SyncInfoFrom(status) ==
    [finalized_root  |-> status.finalized_root,
     finalized_epoch |-> status.finalized_epoch,
     head_root       |-> status.head_root,
     head_slot       |-> status.head_slot]

\* SyncOperation::AddPeer
AddPeer(peer_id, sync_info) ==
    [type |-> "AddPeer", peer_id |-> peer_id, sync_info |-> sync_info]

\* the local chain of the running node, and the STATUS messages its peers
\* send: a relevant one, one of another fork, one ahead of the local clock
NetChain ==
    [fork_digest |-> "fd1", slot |-> 1, head_slot |-> 0, head_root |-> "ha",
     finalized_epoch |-> 0, finalized_root |-> "ra"]

NetStatuses ==
    { [fork_digest |-> "fd1", finalized_root |-> ZeroRoot,
       finalized_epoch |-> 0, head_root |-> "hb", head_slot |-> 1],
      [fork_digest |-> "fd2", finalized_root |-> ZeroRoot,
       finalized_epoch |-> 0, head_root |-> "hb", head_slot |-> 1],
      [fork_digest |-> "fd1", finalized_root |-> ZeroRoot,
       finalized_epoch |-> 0, head_root |-> "hb", head_slot |-> 2] }

\* Network::validate_status_message
validate_status_message(peer_id, message) ==
    IF check_peer_relevance(chain, message) = TRUE
    THEN /\ sync_sender' = Append(sync_sender,
                                  AddPeer(peer_id, SyncInfoFrom(message)))
         /\ UNCHANGED <<peer_db, events>>
    ELSE /\ goodbye(peer_id, "IrrelevantNetwork")
         /\ UNCHANGED sync_sender

\* Network::handle_rpc_event, RpcEvent::ReceivedRequest with a STATUS
ReceivedStatusRequest(peer_id, connection_id, substream_id, message) ==
    /\ inputs < MaxInputs
    /\ inputs' = inputs + 1
    /\ established[peer_id] > 0
    /\ chain.slot # NoSlot
    /\ validate_status_message(peer_id, message)
    /\ IF check_peer_relevance(chain, message) = TRUE
       THEN /\ statusd_peer(peer_id)
            /\ rpc_events' = rpc_send_response(rpc_events, peer_id,
                                 connection_id, substream_id,
                                 status_message(chain))
       ELSE UNCHANGED <<status_peers, statusd_at, rpc_events>>
    /\ pm_ret' = NoReturn
    /\ UNCHANGED <<heartbeat, peers_to_dial, established, dialing>>
    /\ UNCHANGED <<hvars, now, cvars, svars, dvars, wvars>>

\* Network::handle_rpc_event, RpcEvent::ReceivedResponse with a STATUS
ReceivedStatusResponse(peer_id, message) ==
    /\ inputs < MaxInputs
    /\ inputs' = inputs + 1
    /\ established[peer_id] > 0
    /\ chain.slot # NoSlot
    /\ validate_status_message(peer_id, message)
    /\ IF check_peer_relevance(chain, message) = TRUE
       THEN statusd_peer(peer_id)
       ELSE UNCHANGED <<status_peers, statusd_at>>
    /\ pm_ret' = NoReturn
    /\ UNCHANGED <<heartbeat, peers_to_dial, established, dialing,
                   rpc_events>>
    /\ UNCHANGED <<hvars, now, cvars, svars, dvars, wvars>>

(***************************************************************************)
(* BehaviourComposer: a STATUS received from a peer                        *)
(***************************************************************************)
\* BehaviourComposer::handle_status
handle_status(peer_id, message) ==
    IF is_relevant(chain, message) = TRUE
    THEN sync_sender' = Append(sync_sender,
                               AddPeer(peer_id, SyncInfoFrom(message)))
    ELSE UNCHANGED sync_sender

\* inject_event(RpcEvent::ReceivedRequest) with a STATUS
ComposerStatusRequest(peer_id, connection_id, substream_id, message) ==
    /\ inputs < MaxInputs
    /\ inputs' = inputs + 1
    /\ established[peer_id] > 0
    /\ chain.slot # NoSlot
    /\ statusd_peer(peer_id)
    /\ handle_status(peer_id, message)
    /\ rpc_events' = rpc_send_response(rpc_events, peer_id, connection_id,
                                       substream_id,
                                       create_status_message(chain))
    /\ pm_ret' = NoReturn
    /\ UNCHANGED <<peer_db, events, heartbeat, peers_to_dial, established,
                   dialing>>
    /\ UNCHANGED <<hvars, now, cvars, svars, dvars, wvars>>

\* inject_event(RpcEvent::ReceivedResponse) with a STATUS
ComposerStatusResponse(peer_id, message) ==
    /\ inputs < MaxInputs
    /\ inputs' = inputs + 1
    /\ established[peer_id] > 0
    /\ chain.slot # NoSlot
    /\ statusd_peer(peer_id)
    /\ handle_status(peer_id, message)
    /\ pm_ret' = NoReturn
    /\ UNCHANGED <<peer_db, events, heartbeat, peers_to_dial, established,
                   dialing, rpc_events>>
    /\ UNCHANGED <<hvars, now, cvars, svars, dvars, wvars>>

(***************************************************************************)
(* The sync manager: SyncOperation::AddPeer and RangeSync                  *)
(***************************************************************************)
MaxEpoch == 2

SyncEpochs == 0..MaxEpoch

SyncRoots == {ZeroRoot, "ra", "rb"}

\* the order of Hash256 values
RootValue(root) ==
    CASE root = ZeroRoot -> 0
      [] root = "ra" -> 1
      [] root = "rb" -> 2

\* MainnetEthSpec::slots_per_epoch()
SLOTS_PER_EPOCH == 32

EPOCHS_PER_BATCH == 2

\* the epoch of the farthest head a peer reports
MaxHeadEpoch == 4

\* head slots peers report: one past the start of an epoch
SyncHeadSlots ==
    {SLOTS_PER_EPOCH * EPOCHS_PER_BATCH + 1, SLOTS_PER_EPOCH * MaxHeadEpoch + 1}

\* SyncInfo of a remote peer
SyncInfos ==
    [finalized_root : SyncRoots, finalized_epoch : SyncEpochs,
     head_root : {"hb"}, head_slot : SyncHeadSlots]

\* the local chains the sync manager runs on
SyncLocalChains ==
    { [NetChain EXCEPT !.finalized_epoch = e, !.finalized_root = r] :
          e \in Epochs, r \in {"ra", "rb"} }

\* messages waiting in the channel to the sync manager
MaxChannel == 1

\* AddPeer operations sent to the sync manager
MaxAddPeers == 2

NoSyncLast == [tag |-> "None"]

\* a classification by the head slot instead of the finalized epoch
determine_sync_relevance_by_head(local_sync_info, remote_sync_info) ==
    IF remote_sync_info.head_slot < local_sync_info.head_slot THEN "Behind"
    ELSE IF remote_sync_info.head_slot = local_sync_info.head_slot
    THEN "FullySynced"
    ELSE "Advanced"

\* SyncManager::determine_sync_relevance
determine_sync_relevance(local_sync_info, remote_sync_info) ==
    IF remote_sync_info.finalized_epoch < local_sync_info.finalized_epoch
    THEN "Behind"
    ELSE IF remote_sync_info.finalized_epoch = local_sync_info.finalized_epoch
    THEN "FullySynced"
    ELSE "Advanced"

\* From<SyncRelevance> for SyncStatus
SyncStatusFrom(sync_relevance) ==
    CASE sync_relevance = "FullySynced" -> "Synced"
      [] sync_relevance = "Advanced" -> "Advanced"
      [] sync_relevance = "Behind" -> "Behind"

\* RangeSyncType::new
RangeSyncTypeNew(local_sync_info, remote_sync_info, is_block_known) ==
    IF /\ RootValue(remote_sync_info.finalized_root)
              > RootValue(local_sync_info.finalized_root)
       /\ ~is_block_known
    THEN "Finalized"
    ELSE "Head"

\* syncing_chain::id: the hash of (target root, target slot), one id for
\* each pair
syncing_chain_id(target_root, target_slot) == <<target_root, target_slot>>

\* SyncingChain::new
SyncingChainNew(start_epoch, target_head_slot, target_head_root, peer_id) ==
    [id               |-> syncing_chain_id(target_head_root, target_head_slot),
     state            |-> "Stopped",
     start_epoch      |-> start_epoch,
     target_head_slot |-> target_head_slot,
     target_head_root |-> target_head_root,
     peers            |-> [p \in {peer_id} |-> {}],
     to_be_downloaded |-> start_epoch,
     batches          |-> EmptyMap]

\* SyncingChain::available_peers
available_peers(c) == Cardinality(DOMAIN c.peers)

\* RangeSync::new, ChainCollection::new, SyncNetworkContext::new
SyncNew ==
    /\ range_chains = EmptyMap
    /\ sync_panicked = FALSE
    /\ sync_last = NoSyncLast
    /\ collection_state = [tag |-> "Idle"]
    /\ finalized_chains = EmptyMap
    /\ next_request_id = 0
    /\ network_send = <<>>
    /\ batch_log = <<>>

\* RangeSync::add_peer: todo!() panics for a Head sync and for a chain id
\* that is already there
range_sync_add_peer(peer_id, local_sync_info, remote_sync_info) ==
    LET is_block_known == FALSE
        chain_id == syncing_chain_id(remote_sync_info.finalized_root,
                                     remote_sync_info.head_slot)
    IN  IF RangeSyncTypeNew(local_sync_info, remote_sync_info, is_block_known)
               = "Finalized"
        THEN IF chain_id \in DOMAIN range_chains
             THEN /\ sync_panicked' = TRUE
                  /\ UNCHANGED range_chains
             ELSE /\ range_chains' =
                         MapInsert(range_chains, chain_id,
                             SyncingChainNew(local_sync_info.finalized_epoch,
                                             remote_sync_info.head_slot,
                                             remote_sync_info.finalized_root,
                                             peer_id))
                  /\ UNCHANGED sync_panicked
        ELSE /\ sync_panicked' = TRUE
             /\ UNCHANGED range_chains

\* SyncManager::add_peer
sync_add_peer(peer_id, remote_sync_info) ==
    LET local_sync_info == SyncInfoFrom(status_message(chain))
        sync_relevance ==
            determine_sync_relevance(local_sync_info, remote_sync_info)
    IN  /\ peer_db' = update_sync_status(peer_db, peer_id,
                                         SyncStatusFrom(sync_relevance))
        /\ IF sync_relevance = "Advanced"
           THEN range_sync_add_peer(peer_id, local_sync_info, remote_sync_info)
           ELSE UNCHANGED <<range_chains, sync_panicked>>
        /\ sync_last' =
               [tag |-> "AddPeer", peer_id |-> peer_id,
                local |-> local_sync_info, remote |-> remote_sync_info,
                relevance |-> sync_relevance,
                range_sync |-> (sync_relevance = "Advanced"),
                sync_type |->
                    IF sync_relevance = "Advanced"
                    THEN RangeSyncTypeNew(local_sync_info, remote_sync_info,
                                          FALSE)
                    ELSE "None"]

\* Network::validate_status_message sends AddPeer for a peer it keeps
SendAddPeer(peer_id, sync_info) ==
    /\ inputs < MaxAddPeers
    /\ Len(sync_sender) < MaxChannel
    /\ inputs' = inputs + 1
    /\ sync_sender' = Append(sync_sender, AddPeer(peer_id, sync_info))
    /\ UNCHANGED <<peer_db, events, heartbeat, status_peers, statusd_at,
                   peers_to_dial, pm_ret, established, dialing, rpc_events>>
    /\ UNCHANGED <<hvars, now, cvars, svars, dvars, wvars>>

\* SyncManager::main: one operation is received and processed
SyncManagerRecv ==
    /\ ~sync_panicked
    /\ sync_sender # <<>>
    /\ sync_sender' = RemoveFirst(sync_sender)
    /\ sync_add_peer(sync_sender[1].peer_id, sync_sender[1].sync_info)
    /\ UNCHANGED <<events, heartbeat, status_peers, statusd_at, peers_to_dial,
                   pm_ret, established, dialing, rpc_events, inputs>>
    /\ UNCHANGED <<collection_state, finalized_chains, next_request_id,
                   network_send, batch_log>>
    /\ UNCHANGED <<hvars, now, cvars, dvars, wvars>>

(***************************************************************************)
(* SyncingChain, SyncNetworkContext and ChainCollection                    *)
(***************************************************************************)
\* calls of add_peer_or_create_chain and update
MaxCalls == 5

\* target roots of the finalized chains
TargetRoots == {"ra"}

NoEpoch == -1

\* BatchInfo::new
BatchInfoNew(epoch) ==
    [start_slot |-> epoch * SLOTS_PER_EPOCH + 1,
     end_slot   |-> epoch * SLOTS_PER_EPOCH + 1
                        + EPOCHS_PER_BATCH * SLOTS_PER_EPOCH]

\* BatchInfo::to_blocks_by_range_request
to_blocks_by_range_request(batch_info) ==
    [start_slot |-> batch_info.start_slot,
     count      |-> batch_info.end_slot - batch_info.start_slot]

\* NetworkMessage::SendRequest
SendRequest(peer_id, request, request_id) ==
    [type |-> "SendRequest", peer_id |-> peer_id, request |-> request,
     request_id |-> [tag |-> "RangeSync", id |-> request_id]]

\* a blocks_by_range_request whose next_id hands out the same id again
blocks_by_range_request_same_id(network_context, peer_id, request) ==
    [network_context EXCEPT
        !.network_send =
            Append(@, SendRequest(peer_id, request, network_context.request_id))]

\* SyncNetworkContext::blocks_by_range_request with next_id: the request is
\* sent with the current id, and the id is incremented
blocks_by_range_request(network_context, peer_id, request) ==
    [network_context EXCEPT
        !.network_send =
            Append(@, SendRequest(peer_id, request, network_context.request_id)),
        !.request_id = @ + 1]

\* a next_batch that moves on by one epoch
next_batch_by_one(c) ==
    IF c.to_be_downloaded * SLOTS_PER_EPOCH >= c.target_head_slot
    THEN [chain |-> c, epoch |-> NoEpoch]
    ELSE [chain |-> [c EXCEPT
                        !.batches = MapInsert(@, c.to_be_downloaded,
                                              BatchInfoNew(c.to_be_downloaded)),
                        !.to_be_downloaded = @ + 1],
          epoch |-> c.to_be_downloaded]

\* a next_batch that never looks at the target head slot
next_batch_beyond_target(c) ==
    [chain |-> [c EXCEPT
                   !.batches = MapInsert(@, c.to_be_downloaded,
                                         BatchInfoNew(c.to_be_downloaded)),
                   !.to_be_downloaded = @ + EPOCHS_PER_BATCH],
     epoch |-> c.to_be_downloaded]

\* SyncingChain::next_batch: the chain afterwards and the epoch handed out
RECURSIVE next_batch(_)
next_batch(c) ==
    IF c.to_be_downloaded * SLOTS_PER_EPOCH >= c.target_head_slot
    THEN [chain |-> c, epoch |-> NoEpoch]
    ELSE LET epoch == c.to_be_downloaded
         IN  IF epoch \in DOMAIN c.batches
             THEN next_batch([c EXCEPT !.to_be_downloaded = @ + EPOCHS_PER_BATCH])
             ELSE [chain |-> [c EXCEPT
                                 !.batches = MapInsert(@, epoch,
                                                       BatchInfoNew(epoch)),
                                 !.to_be_downloaded = @ + EPOCHS_PER_BATCH],
                   epoch |-> epoch]

\* SyncingChain::send_batch; st is the chain, the network context and the
\* history of the batches sent. The request id is not stored in chain.peers
send_batch(st, peer_id, epoch) ==
    IF epoch \notin DOMAIN st.chain.batches THEN st
    ELSE [st EXCEPT
             !.network_context =
                 blocks_by_range_request(@, peer_id,
                     to_blocks_by_range_request(st.chain.batches[epoch])),
             !.log = Append(@, [chain |-> st.chain.id, epoch |-> epoch,
                                peer_id |-> peer_id, state |-> st.chain.state,
                                call |-> st.call])]

\* the loop of SyncingChain::request_batches over the peers in the order the
\* HashMap yields them
RECURSIVE request_batches_loop(_, _)
request_batches_loop(st, order) ==
    IF order = <<>> THEN st
    ELSE LET batch == next_batch(st.chain)
         IN  IF batch.epoch = NoEpoch THEN [st EXCEPT !.chain = batch.chain]
             ELSE request_batches_loop(
                      send_batch([st EXCEPT !.chain = batch.chain],
                                 order[1], batch.epoch),
                      Tail(order))

\* SyncingChain::request_batches
request_batches(st, order) ==
    IF st.chain.state # "Syncing" THEN st
    ELSE request_batches_loop(st, order)

\* the orders in which a HashMap over a set of peers can be iterated
PeerOrders(S) ==
    { order \in [1..Cardinality(S) -> S] :
          \A i, j \in 1..Cardinality(S) : i # j => order[i] # order[j] }

\* SyncingChain::add_peer
chain_add_peer(st, peer_id, order) ==
    LET with_peer ==
            IF peer_id \in DOMAIN st.chain.peers THEN st
            ELSE [st EXCEPT !.chain.peers = MapInsert(@, peer_id, {})]
    IN  IF with_peer.chain.peers[peer_id] = {}
        THEN request_batches(with_peer, order)
        ELSE with_peer

\* an advance_chain that takes every local finalized epoch
advance_chain_to_any(c, local_finalized_epoch) ==
    [c EXCEPT !.start_epoch = local_finalized_epoch]

\* SyncingChain::advance_chain
advance_chain(c, local_finalized_epoch) ==
    IF local_finalized_epoch <= c.start_epoch THEN c
    ELSE [c EXCEPT !.start_epoch = local_finalized_epoch]

\* SyncingChain::start_syncing
start_syncing(st, local_finalized_epoch, order) ==
    request_batches(
        [st EXCEPT !.chain = [advance_chain(@, local_finalized_epoch)
                                  EXCEPT !.state = "Syncing"]],
        order)

\* the chain c with the sync network context and the history, for one call
ChainState(c) ==
    [chain |-> c,
     network_context |-> [request_id |-> next_request_id,
                          network_send |-> network_send],
     log |-> batch_log,
     call |-> inputs + 1]

\* the chain, the network context and the history are written back
StoreChainState(st) ==
    /\ finalized_chains' = MapInsert(finalized_chains, st.chain.id, st.chain)
    /\ next_request_id' = st.network_context.request_id
    /\ network_send' = st.network_context.network_send
    /\ batch_log' = st.log

\* ChainCollection::add_peer_or_create_chain
add_peer_or_create_chain(peer_id, start_epoch, target_head_root, target_head_slot) ==
    LET chain_id == syncing_chain_id(target_head_root, target_head_slot)
    IN  IF chain_id \in DOMAIN finalized_chains
        THEN \E order \in PeerOrders(DOMAIN finalized_chains[chain_id].peers
                                         \cup {peer_id}) :
                 StoreChainState(
                     chain_add_peer(ChainState(finalized_chains[chain_id]),
                                    peer_id, order))
        ELSE /\ finalized_chains' =
                    MapInsert(finalized_chains, chain_id,
                        SyncingChainNew(start_epoch, target_head_slot,
                                        target_head_root, peer_id))
             /\ UNCHANGED <<next_request_id, network_send, batch_log>>

\* a choice of any chain of the collection
AnyChain == DOMAIN finalized_chains

\* the chains max_by_key(available_peers) can yield
MostAvailablePeers ==
    { i \in DOMAIN finalized_chains :
          \A j \in DOMAIN finalized_chains :
              available_peers(finalized_chains[j])
                  <= available_peers(finalized_chains[i]) }

\* ChainCollection::update_finalized_chains
update_finalized_chains(local_finalized_epoch) ==
    IF finalized_chains = EmptyMap
    THEN UNCHANGED <<collection_state, finalized_chains, next_request_id,
                     network_send, batch_log>>
    ELSE \E new_syncing_chain_id \in MostAvailablePeers :
         \E order \in PeerOrders(DOMAIN finalized_chains[new_syncing_chain_id].peers) :
             /\ collection_state' =
                    [tag |-> "Syncing", id |-> new_syncing_chain_id]
             /\ StoreChainState(
                    start_syncing(
                        ChainState(finalized_chains[new_syncing_chain_id]),
                        local_finalized_epoch, order))

\* a call of ChainCollection::add_peer_or_create_chain
AddPeerOrCreateChain(peer_id, start_epoch, target_head_root, target_head_slot) ==
    /\ inputs < MaxCalls
    /\ inputs' = inputs + 1
    /\ add_peer_or_create_chain(peer_id, start_epoch, target_head_root,
                                target_head_slot)
    /\ UNCHANGED <<collection_state, range_chains, sync_panicked, sync_last>>
    /\ UNCHANGED <<peer_db, events, heartbeat, status_peers, statusd_at,
                   peers_to_dial, pm_ret, established, dialing, sync_sender,
                   rpc_events>>
    /\ UNCHANGED <<hvars, now, cvars, dvars, wvars>>

\* a call of ChainCollection::update
Update(local_finalized_epoch) ==
    /\ inputs < MaxCalls
    /\ inputs' = inputs + 1
    /\ update_finalized_chains(local_finalized_epoch)
    /\ UNCHANGED <<range_chains, sync_panicked, sync_last>>
    /\ UNCHANGED <<peer_db, events, heartbeat, status_peers, statusd_at,
                   peers_to_dial, pm_ret, established, dialing, sync_sender,
                   rpc_events>>
    /\ UNCHANGED <<hvars, now, cvars, dvars, wvars>>

(***************************************************************************)
(* The handler of one connection.                                          *)
(***************************************************************************)
Init ==
    /\ HandlerNew
    /\ NetNew
    /\ SyncNew
    /\ DiscoveryNew
    /\ chain = NetChain
    /\ relevance = NoRelevance

Next ==
    \/ \E id \in InternalIds : OnBehaviourStatus(id)
    \/ \E id \in InternalIds : OnBehaviourGoodbye(id)
    \/ \E id \in ApplicationIds, kind \in RequestKinds :
           OnBehaviourRequest(id, kind)
    \/ \E id \in 0..(MaxSubstreams - 1) : OnBehaviourResponse(id, "Status")
    \/ \E request \in InboundKinds : OnFullyNegotiatedInbound(request)
    \/ \E i \in 1..MaxSubstreams : OnFullyNegotiatedOutbound(i)
    \/ \E i \in 1..MaxSubstreams : OnDialUpgradeError(i)
    \/ Poll
    \/ \E d \in TickSteps : Tick(d)

Spec == Init /\ [][Next]_vars

(***************************************************************************)
(* The relevance check applied to every local chain and remote STATUS.     *)
(***************************************************************************)
InitRelevance ==
    /\ HandlerNew
    /\ NetNew
    /\ SyncNew
    /\ DiscoveryNew
    /\ chain \in Chains
    /\ relevance = NoRelevance

NextRelevance ==
    \/ \E remote_status \in Statuses : CheckPeerRelevance(remote_status)
    \/ \E remote_status \in Statuses : IsRelevant(remote_status)

SpecRelevance == InitRelevance /\ [][NextRelevance]_vars

(***************************************************************************)
(* The peer manager, the swarm and the network service.                    *)
(***************************************************************************)
NextNet ==
    \/ \E p \in Peers : DialPeer(p)
    \/ \E p \in Peers : DialSucceeds(p)
    \/ \E p \in Peers : DialFails(p)
    \/ \E p \in Peers : InboundConnection(p)
    \/ \E p \in Peers : ConnectionClosed(p)
    \/ \E p \in Peers, c \in ConnectionIds, id \in SubstreamIds,
          m \in NetStatuses : ReceivedStatusRequest(p, c, id, m)
    \/ \E p \in Peers, m \in NetStatuses : ReceivedStatusResponse(p, m)
    \/ PeerManagerPoll
    \/ RpcBehaviourPoll
    \/ \E d \in NetTickSteps : NetTick(d)

SpecNet == Init /\ [][NextNet]_vars

(***************************************************************************)
(* The peer manager, the swarm and the network service at one instant of   *)
(* the clock: every handler, no passage of time.                           *)
(***************************************************************************)
NextInstant ==
    \/ \E p \in Peers : DialPeer(p)
    \/ \E p \in Peers : DialSucceeds(p)
    \/ \E p \in Peers : DialFails(p)
    \/ \E p \in Peers : InboundConnection(p)
    \/ \E p \in Peers : ConnectionClosed(p)
    \/ \E p \in Peers, c \in ConnectionIds, id \in SubstreamIds,
          m \in NetStatuses : ReceivedStatusRequest(p, c, id, m)
    \/ \E p \in Peers, m \in NetStatuses : ReceivedStatusResponse(p, m)
    \/ PeerManagerPoll
    \/ RpcBehaviourPoll

SpecInstant == Init /\ [][NextInstant]_vars

(***************************************************************************)
(* The peer manager saying goodbye to its peers, for any reason.           *)
(***************************************************************************)
NextGoodbye ==
    \/ \E p \in Peers : InboundConnection(p)
    \/ \E p \in Peers : ConnectionClosed(p)
    \/ \E p \in Peers, reason \in GoodbyeReasons : Goodbye(p, reason)
    \/ PeerManagerPoll
    \/ RpcBehaviourPoll

SpecGoodbye == Init /\ [][NextGoodbye]_vars

(***************************************************************************)
(* The substreams of one handler while its clock stands still.            *)
(***************************************************************************)
NextSubstreams ==
    \/ \E id \in InternalIds : OnBehaviourStatus(id)
    \/ \E id \in InternalIds : OnBehaviourGoodbye(id)
    \/ \E id \in ApplicationIds, kind \in RequestKinds :
           OnBehaviourRequest(id, kind)
    \/ \E id \in 0..(MaxSubstreams - 1) : OnBehaviourResponse(id, "Status")
    \/ \E request \in InboundKinds : OnFullyNegotiatedInbound(request)
    \/ \E i \in 1..MaxSubstreams : OnFullyNegotiatedOutbound(i)
    \/ \E i \in 1..MaxSubstreams : OnDialUpgradeError(i)
    \/ Poll

SpecSubstreams == Init /\ [][NextSubstreams]_vars

(***************************************************************************)
(* Range sync sending its requests through the network service.           *)
(***************************************************************************)
\* RequestId::Application
RequestIdApplication(request_id) ==
    [tag |-> "Application", request_id |-> request_id]

\* rpc Behaviour::send_request
rpc_send_request(q, peer_id, request, request_id) ==
    Append(q, NotifyHandler(peer_id, NotifyAny,
                  [type |-> "Request", request_id |-> request_id,
                   request |-> request]))

\* Network::send_request
network_send_request(peer_id, request, request_id) ==
    rpc_events' = rpc_send_request(rpc_events, peer_id, request,
                                   RequestIdApplication(request_id))

\* Network::on_network_message: network_receiver.recv() gave the first
\* message of the channel
OnNetworkMessage ==
    /\ network_send # <<>>
    /\ network_send' = RemoveFirst(network_send)
    /\ network_send_request(network_send[1].peer_id, network_send[1].request,
                            network_send[1].request_id)
    /\ pm_ret' = NoReturn
    /\ UNCHANGED <<peer_db, events, heartbeat, status_peers, statusd_at,
                   peers_to_dial, established, dialing, sync_sender, inputs>>
    /\ UNCHANGED <<range_chains, sync_panicked, sync_last, collection_state,
                   finalized_chains, next_request_id, batch_log>>
    /\ UNCHANGED <<hvars, now, cvars, dvars, wvars>>

NextSyncNetwork ==
    \/ \E p \in Peers, e \in Epochs, r \in TargetRoots, t \in SyncHeadSlots :
           AddPeerOrCreateChain(p, e, r, t)
    \/ \E e \in SyncEpochs : Update(e)
    \/ OnNetworkMessage

SpecSyncNetwork == Init /\ [][NextSyncNetwork]_vars

(***************************************************************************)
(* Connection handlers asking for their connection to be closed.          *)
(***************************************************************************)
NextClose ==
    \/ \E p \in Peers : InboundConnection(p)
    \/ \E p \in Peers : ConnectionClosed(p)
    \/ \E p \in Peers : HandlerCloseConnection(p)
    \/ PeerManagerPoll
    \/ RpcBehaviourPoll

SpecClose == Init /\ [][NextClose]_vars

(***************************************************************************)
(* The heartbeat of the peer manager while connections come and go.        *)
(***************************************************************************)
\* the clock moves by one heartbeat or by several
HeartbeatSteps == {HEARTBEAT_INTERVAL, HEARTBEAT_INTERVAL * 3}

NextHeartbeat ==
    \/ \E p \in Peers : InboundConnection(p)
    \/ \E p \in Peers : ConnectionClosed(p)
    \/ PeerManagerPoll
    \/ \E d \in HeartbeatSteps : NetTick(d)

SpecHeartbeat == Init /\ [][NextHeartbeat]_vars

(***************************************************************************)
(* Discovery driven by the heartbeat and by its own results.               *)
(***************************************************************************)
\* the clock moves by several heartbeats
DiscoverySteps == {HEARTBEAT_INTERVAL * 5}

NextDiscovery ==
    \/ \E p \in Peers : DialPeer(p)
    \/ QueryEmpty
    \/ QueryFailed
    \/ \E p \in Peers : InboundConnection(p)
    \/ \E p \in Peers : ConnectionClosed(p)
    \/ PeerManagerPoll
    \/ \E d \in DiscoverySteps : NetTick(d)

SpecDiscovery == Init /\ [][NextDiscovery]_vars

(***************************************************************************)
(* The behaviour composer's handling of a received STATUS.                 *)
(***************************************************************************)
NextComposer ==
    \/ \E p \in Peers : InboundConnection(p)
    \/ \E p \in Peers : ConnectionClosed(p)
    \/ \E p \in Peers, c \in ConnectionIds, id \in SubstreamIds,
          m \in NetStatuses : ComposerStatusRequest(p, c, id, m)
    \/ \E p \in Peers, m \in NetStatuses : ComposerStatusResponse(p, m)
    \/ RpcBehaviourPoll
    \/ \E d \in NetTickSteps : NetTick(d)

SpecComposer == Init /\ [][NextComposer]_vars

(***************************************************************************)
(* The sync manager receiving AddPeer from the network service.            *)
(***************************************************************************)
\* every peer has an established connection: PeerDB::add_peer has run for it
PeersConnected ==
    /\ peer_db = [p \in Peers |-> PeerInfoNew(SendBackAddress(p))]
    /\ established = [p \in Peers |-> 1]
    /\ closing = [p \in Peers |-> 0]
    /\ connected_once = Peers
    /\ events = <<>>
    /\ heartbeat = 0
    /\ status_peers = [p \in Peers |-> NoTimer]
    /\ statusd_at = [p \in Peers |-> NoTimer]
    /\ peers_to_dial = <<>>
    /\ pm_ret = NoReturn
    /\ dialing = [p \in Peers |-> 0]
    /\ sync_sender = <<>>
    /\ rpc_events = <<>>
    /\ inputs = 0

InitSyncManager ==
    /\ HandlerNew
    /\ PeersConnected
    /\ SyncNew
    /\ DiscoveryNew
    /\ chain \in SyncLocalChains
    /\ relevance = NoRelevance

NextSyncManager ==
    \/ \E p \in Peers, info \in SyncInfos : SendAddPeer(p, info)
    \/ SyncManagerRecv

SpecSyncManager == InitSyncManager /\ [][NextSyncManager]_vars

(***************************************************************************)
(* The chain collection of range sync.                                     *)
(***************************************************************************)
NextChains ==
    \/ \E p \in Peers, e \in Epochs, r \in TargetRoots, t \in SyncHeadSlots :
           AddPeerOrCreateChain(p, e, r, t)
    \/ \E e \in SyncEpochs : Update(e)

SpecChains == Init /\ [][NextChains]_vars

(***************************************************************************)
(* Properties of the handler.                                              *)
(***************************************************************************)
\* a shutdown request: a Goodbye instruction or a negotiated inbound GOODBYE
GoodbyeInstruction == \E id \in InternalIds : OnBehaviourGoodbye(id)

InboundGoodbye == OnFullyNegotiatedInbound("Goodbye")

InQueue(q, kind) == \E i \in 1..Len(q) : q[i].request = kind

\* C1: the handler state only moves Active -> ShuttingDown -> Deactivated:
\* it leaves Active only by a Goodbye instruction or a negotiated inbound
\* GOODBYE, it leaves ShuttingDown only by a poll at which the deadline has
\* elapsed, and a shutdown request arriving when the state is not Active
\* changes neither the state, nor the armed deadline, nor the dial queue.
C1_StateMachine ==
    [][ /\ state' # state =>
             \/ /\ state = "Active"
                /\ state' = "ShuttingDown"
                /\ GoodbyeInstruction \/ InboundGoodbye
             \/ /\ state = "ShuttingDown"
                /\ state' = "Deactivated"
                /\ now >= deadline
                /\ Poll
        /\ (state # "Active" /\ (GoodbyeInstruction \/ InboundGoodbye)) =>
               UNCHANGED <<state, deadline, dial_queue>> ]_vars

\* a deactivated handler that had sent a GOODBYE and then received one
C1_Witness ==
    /\ state = "Deactivated"
    /\ InQueue(negotiating, "Goodbye")
    /\ InQueue(out_events, "Goodbye")

\* C2: while the handler is ShuttingDown or Deactivated no instruction adds
\* anything to the dial queue.
C2_NoDialWhileShuttingDown ==
    [][ state # "Active" => Len(dial_queue') <= Len(dial_queue) ]_vars

\* C3: the deadline is armed 15 seconds after the entry into ShuttingDown and
\* is kept; a poll of a ShuttingDown handler whose deadline has elapsed
\* deactivates it and returns CloseConnection(Disconnected) without touching
\* the dial queue, the upward events or the substreams; no other poll
\* deactivates; the timer branch returns CloseConnection exactly once for a
\* handler that is deactivated and never for another.
C3_ShutdownTimer ==
    /\ [](timer_closes = IF state = "Deactivated" THEN 1 ELSE 0)
    /\ [][ /\ (state = "Active" /\ state' = "ShuttingDown") =>
                deadline' = now + SHUTDOWN_TIMEOUT_SECS
           /\ (state = "ShuttingDown" /\ state' = "ShuttingDown") =>
                deadline' = deadline
           /\ (state = "ShuttingDown" /\ now >= deadline /\ Poll) =>
                /\ state' = "Deactivated"
                /\ poll_ret' = NotifyBehaviour(CloseConnection)
                /\ UNCHANGED <<dial_queue, out_events, inbound_substreams,
                               outbound_substreams, negotiating>>
           /\ (state = "ShuttingDown" /\ now < deadline) =>
                state' = "ShuttingDown" ]_vars

\* the timer fired ahead of a queued dial and a queued upward event
C3_Witness ==
    /\ state = "Deactivated"
    /\ poll_ret = NotifyBehaviour(CloseConnection)
    /\ timer_closes = 1
    /\ dial_queue # <<>>
    /\ out_events # <<>>

\* C4: every queued outbound request has one RequestId and every Response
\* returned by poll carries the RequestId of the request that opened the
\* substream it arrived on.
C4_ResponsePairedWithRequestId ==
    /\ [](\A i \in 1..Len(dial_queue) :
             dial_queue[i].id \in InternalIds \cup ApplicationIds)
    /\ [][ (Poll /\ poll_ret'.type = "NotifyBehaviour"
                 /\ poll_ret'.event.type = "Response") =>
              /\ "request_id" \in DOMAIN poll_ret'.event
              /\ \E id \in DOMAIN outbound_substreams :
                    /\ poll_ret'.event.response =
                           outbound_substreams[id].request
                    /\ poll_ret'.event.request_id =
                           outbound_substreams[id].origin_id ]_vars

\* what every negotiated inbound substream does: a fresh id, an Idle entry
\* with no response queued
InboundStored ==
    /\ inbound_substream_id' = inbound_substream_id + 1
    /\ inbound_substream_id \notin DOMAIN inbound_substreams
    /\ DOMAIN inbound_substreams' =
           DOMAIN inbound_substreams \cup {inbound_substream_id}
    /\ inbound_substreams'[inbound_substream_id] =
           [state |-> "Idle", responses_to_send |-> <<>>]

RequestSurfaced(request) ==
    out_events' = Append(out_events, [type |-> "Request",
                                      substream_id |-> inbound_substream_id,
                                      request |-> request])

ShutdownBegun ==
    IF state = "Active"
    THEN state' = "ShuttingDown" /\ deadline' = now + SHUTDOWN_TIMEOUT_SECS
    ELSE UNCHANGED <<state, deadline>>

\* C5 as claimed: a negotiated inbound substream is stored Idle under a
\* fresh id; a GOODBYE begins the shutdown and surfaces no Request event,
\* any other request surfaces exactly one Request with the minted id.
C5_GoodbyeNotSurfaced ==
    [][ \A request \in InboundKinds :
          OnFullyNegotiatedInbound(request) =>
            /\ InboundStored
            /\ IF request = "Goodbye"
               THEN ShutdownBegun /\ UNCHANGED out_events
               ELSE RequestSurfaced(request)
                    /\ UNCHANGED <<state, deadline>> ]_vars

\* C5 amended: a negotiated inbound substream is stored Idle under a fresh
\* id and surfaces exactly one Request with the minted id, whatever the
\* request; a GOODBYE begins the shutdown as well.
C5_GoodbyeSurfaced ==
    [][ \A request \in InboundKinds :
          OnFullyNegotiatedInbound(request) =>
            /\ InboundStored
            /\ RequestSurfaced(request)
            /\ IF request = "Goodbye"
               THEN ShutdownBegun
               ELSE UNCHANGED <<state, deadline>> ]_vars

\* an inbound GOODBYE, the only substream so far, began the shutdown and is
\* queued for the behaviour
C5_Witness ==
    /\ state = "ShuttingDown"
    /\ Substreams = 1
    /\ out_events = <<[type |-> "Request", substream_id |-> 0,
                       request |-> "Goodbye"]>>
    /\ 0 \in DOMAIN inbound_substreams

(***************************************************************************)
(* Properties of the peer manager and of STATUS handling.                  *)
(***************************************************************************)
\* C6: while no connection to p has ever been established, at most one dial
\* attempt to p is in flight, however many times dial_peer(p) was called.
C6_AtMostOneDialInFlight ==
    \A p \in Peers :
        (peer_db[p] = NoPeer /\ established[p] = 0) => dialing[p] <= 1

\* C7: when the peer manager's poll emits SendStatus(p), at least
\* STATUS_INTERVAL seconds have passed since the last statusd_peer(p).
C7_NoSendStatusBeforeInterval ==
    \A p \in Peers :
        (pm_ret = GenerateEvent(SendStatus(p)) /\ statusd_at[p] # NoTimer)
            => now >= statusd_at[p] + STATUS_INTERVAL

\* the remote STATUS is on the local fork and not ahead of the local clock
Relevant(message) ==
    /\ message.fork_digest = chain.fork_digest
    /\ message.head_slot <= chain.slot

\* a STATUS from peer p is handled, by the network service or by the
\* behaviour composer
StatusReceived(p, m) ==
    \/ \E c \in ConnectionIds, id \in SubstreamIds :
           ReceivedStatusRequest(p, c, id, m)
    \/ ReceivedStatusResponse(p, m)
    \/ \E c \in ConnectionIds, id \in SubstreamIds :
           ComposerStatusRequest(p, c, id, m)
    \/ ComposerStatusResponse(p, m)

\* C8: handling a STATUS that is not relevant issues
\* goodbye(p, IrrelevantNetwork) and sends nothing to the sync manager;
\* handling a relevant one sends exactly one AddPeer(p, remote sync info)
\* and issues no goodbye.
C8_StatusOutcome ==
    [][ \A p \in Peers, m \in NetStatuses :
          StatusReceived(p, m) =>
              IF Relevant(m)
              THEN /\ sync_sender' =
                          Append(sync_sender, AddPeer(p, SyncInfoFrom(m)))
                   /\ events' = events
              ELSE /\ events' =
                          Append(events, DisconnectPeer(p, "IrrelevantNetwork"))
                   /\ sync_sender' = sync_sender ]_vars

C10_FalseIffAheadOfLocalHead ==
    (relevance # NoRelevance /\ relevance.by = "check_peer_relevance"
         /\ chain.slot # NoSlot) =>
        LET A == status_message(chain)
            B == relevance.remote
        IN  /\ relevance.result \in BOOLEAN
            /\ (relevance.result = FALSE)
                   <=> (A.fork_digest # B.fork_digest
                            \/ B.head_slot > A.head_slot)

\* C10 amended: with A the local status and B the remote one, the check
\* answers false if and only if A.fork_digest # B.fork_digest or B.head_slot
\* is greater than the slot of the local clock, and true otherwise; the head
\* slot of A plays no part.
C10_FalseIffAheadOfClock ==
    (relevance # NoRelevance /\ relevance.by = "check_peer_relevance"
         /\ chain.slot # NoSlot) =>
        LET A == status_message(chain)
            B == relevance.remote
        IN  /\ relevance.result \in BOOLEAN
            /\ (relevance.result = FALSE)
                   <=> (A.fork_digest # B.fork_digest
                            \/ B.head_slot > chain.slot)

C10_Witness ==
    /\ relevance # NoRelevance
    /\ relevance.by = "check_peer_relevance"
    /\ chain.slot # NoSlot
    /\ status_message(chain).fork_digest = relevance.remote.fork_digest
    /\ relevance.remote.head_slot > status_message(chain).head_slot
    /\ relevance.remote.head_slot <= chain.slot
    /\ relevance.result = TRUE

\* the reply to a STATUS request: the local status for the substream it was
\* asked on, to the handler of the connection it was asked on
StatusReply(p, c, id) ==
    [peer_id |-> p,
     handler |-> [tag |-> "One", connection_id |-> c],
     event   |-> [type |-> "Response", substream_id |-> id,
                  response |-> status_message(chain)]]

C12_ClassifiedByFinalizedEpoch ==
    sync_last # NoSyncLast =>
        LET local == sync_last.local
            remote == sync_last.remote
            expected ==
                IF remote.finalized_epoch < local.finalized_epoch THEN "Behind"
                ELSE IF remote.finalized_epoch = local.finalized_epoch
                THEN "FullySynced"
                ELSE "Advanced"
        IN  /\ local = SyncInfoFrom(status_message(chain))
            /\ sync_last.relevance = expected
            /\ peer_db[sync_last.peer_id].sync_status =
                   (CASE expected = "Behind" -> "Behind"
                      [] expected = "FullySynced" -> "Synced"
                      [] expected = "Advanced" -> "Advanced")
            /\ sync_last.range_sync = (expected = "Advanced")

C12_Witness ==
    /\ sync_last # NoSyncLast
    /\ sync_last.relevance = "Behind"
    /\ sync_last.remote.head_slot > sync_last.local.head_slot
    /\ peer_db[sync_last.peer_id].sync_status = "Behind"
    /\ \E p \in Peers : peer_db[p].sync_status = "Advanced"
    /\ ~sync_last.range_sync

(***************************************************************************)
(* C13: range sync chooses a Finalized sync when the remote finalized root *)
(* differs from the local one and is not already known locally, and a Head *)
(* sync otherwise.                                                         *)
(***************************************************************************)
C13_FinalizedIffRootDiffers ==
    (sync_last # NoSyncLast /\ sync_last.range_sync) =>
        (sync_last.sync_type = "Finalized"
            <=> sync_last.remote.finalized_root # sync_last.local.finalized_root)

(***************************************************************************)
(* C14: a Finalized peer is grouped by the chain id of its (target root,   *)
(* target slot): the first peer creates the chain starting at the local    *)
(* finalized epoch, and every later peer reporting the same pair is added  *)
(* to that chain.                                                          *)
(***************************************************************************)
C14_PeerJoinsChainOfItsTarget ==
    (/\ sync_last # NoSyncLast
     /\ sync_last.range_sync
     /\ sync_last.sync_type = "Finalized") =>
        LET chain_id == syncing_chain_id(sync_last.remote.finalized_root,
                                         sync_last.remote.head_slot)
        IN  /\ chain_id \in DOMAIN range_chains
            /\ sync_last.peer_id \in DOMAIN range_chains[chain_id].peers
            /\ range_chains[chain_id].start_epoch
                   <= sync_last.local.finalized_epoch

\* the batches of one chain in the history of the batches sent
BatchesOf(chain_id) ==
    SelectSeq(batch_log, LAMBDA b : b.chain = chain_id)

(***************************************************************************)
(* C15: request_batches sends a BlocksByRange request only to peers that   *)
(* have no outstanding batch, at most one new batch per such peer per      *)
(* call, and nothing when the chain is not Syncing. No response handling   *)
(* completes a batch, so a batch once sent stays outstanding.              *)
(***************************************************************************)
C15_OnlyPeersWithoutOutstandingBatch ==
    /\ \A j \in 1..Len(batch_log) : batch_log[j].state = "Syncing"
    /\ \A i, j \in 1..Len(batch_log) :
           (i < j /\ batch_log[i].chain = batch_log[j].chain
                  /\ batch_log[i].peer_id = batch_log[j].peer_id)
               => FALSE

(***************************************************************************)
(* C16: for one SyncingChain the epochs handed out by successive           *)
(* next_batch calls increase by EPOCHS_PER_BATCH and never repeat, over    *)
(* any sequence of add_peer, start_syncing and request_batches.            *)
(***************************************************************************)
C16_BatchEpochsIncrease ==
    \A chain_id \in DOMAIN finalized_chains :
        LET batches == BatchesOf(chain_id)
        IN  /\ \A i \in 1..Len(batches) - 1 :
                   batches[i + 1].epoch = batches[i].epoch + EPOCHS_PER_BATCH
            /\ \A i, j \in 1..Len(batches) :
                   i # j => batches[i].epoch # batches[j].epoch
            /\ DOMAIN finalized_chains[chain_id].batches =
                   { batches[i].epoch : i \in 1..Len(batches) }

C16_Witness ==
    \E chain_id \in DOMAIN finalized_chains :
        LET batches == BatchesOf(chain_id)
        IN  /\ Len(batches) = 3
            /\ batches[1].call # batches[2].call
            /\ batches[2].call = batches[3].call
            /\ batches[2].peer_id # batches[3].peer_id
            /\ finalized_chains[chain_id].start_epoch > batches[1].epoch

(***************************************************************************)
(* C17: the start_epoch of a SyncingChain never decreases; start_syncing   *)
(* raises it to local_finalized_epoch only when that is strictly higher,   *)
(* sets the chain state to Syncing and requests batches.                   *)
(***************************************************************************)
C17_StartEpochMonotonic ==
    [][ /\ \A chain_id \in DOMAIN finalized_chains :
              /\ chain_id \in DOMAIN finalized_chains'
              /\ finalized_chains'[chain_id].start_epoch
                     >= finalized_chains[chain_id].start_epoch
        /\ \A e \in SyncEpochs :
              (Update(e) /\ finalized_chains # EmptyMap) =>
                  LET chain_id == collection_state'.id
                      before == finalized_chains[chain_id]
                      after == finalized_chains'[chain_id]
                  IN  /\ after.start_epoch =
                             (IF e > before.start_epoch THEN e
                              ELSE before.start_epoch)
                      /\ after.state = "Syncing"
                      /\ (before.to_be_downloaded * SLOTS_PER_EPOCH
                              < before.target_head_slot)
                             => /\ Len(batch_log') > Len(batch_log)
                                /\ batch_log'[Len(batch_log')].chain = chain_id
                                /\ Len(network_send') > Len(network_send)
      ]_vars

C17_Witness ==
    /\ collection_state.tag = "Syncing"
    /\ inputs = 3
    /\ LET c == finalized_chains[collection_state.id]
       IN  /\ c.state = "Syncing"
           /\ c.start_epoch = 2
           /\ c.to_be_downloaded = 1 + EPOCHS_PER_BATCH
           /\ Len(BatchesOf(c.id)) = 1

(***************************************************************************)
(* C18: ChainCollection.update makes a chain with the most available peers *)
(* the syncing one, Syncing(id), and calls start_syncing on exactly that   *)
(* chain; with no chains it changes nothing.                               *)
(***************************************************************************)
C18_UpdatePicksMostPeers ==
    [][ \A e \in SyncEpochs :
            Update(e) =>
                IF finalized_chains = EmptyMap
                THEN UNCHANGED <<collection_state, finalized_chains,
                                 next_request_id, network_send, batch_log>>
                ELSE /\ collection_state'.tag = "Syncing"
                     /\ collection_state'.id \in DOMAIN finalized_chains
                     /\ \A other \in DOMAIN finalized_chains :
                            /\ available_peers(finalized_chains[other])
                                   <= available_peers(
                                          finalized_chains[collection_state'.id])
                            /\ other # collection_state'.id
                                   => finalized_chains'[other]
                                          = finalized_chains[other]
                     /\ finalized_chains'[collection_state'.id].state = "Syncing"
                     /\ DOMAIN finalized_chains' = DOMAIN finalized_chains
      ]_vars

C18_Witness ==
    /\ collection_state.tag = "Syncing"
    /\ Cardinality(DOMAIN finalized_chains) = 2
    /\ available_peers(finalized_chains[collection_state.id]) = 2
    /\ finalized_chains[collection_state.id].state = "Syncing"
    /\ \E other \in DOMAIN finalized_chains :
           /\ available_peers(finalized_chains[other]) = 1
           /\ finalized_chains[other].state = "Stopped"

(***************************************************************************)
(* C19: the sync_status of a peer recorded in PeerDB changes only as the   *)
(* result of a STATUS exchange with that peer; no connection-lifecycle     *)
(* event changes it.                                                       *)
(***************************************************************************)
C19_SyncStatusOnlyByStatus ==
    [][ \A p \in Peers :
            (/\ peer_db[p] # NoPeer
             /\ peer_db'[p].sync_status # peer_db[p].sync_status)
                => \/ \E c \in ConnectionIds, id \in SubstreamIds,
                         m \in NetStatuses : ReceivedStatusRequest(p, c, id, m)
                   \/ \E m \in NetStatuses : ReceivedStatusResponse(p, m)
      ]_vars

\* the DisconnectPeer events of a queue, and the goodbyes for the handlers
DisconnectPeers(q) == SelectSeq(q, LAMBDA e : e.type = "DisconnectPeer")

Goodbyes(q) == SelectSeq(q, LAMBDA n : n.event.type = "Goodbye")

(***************************************************************************)
(* C20: goodbye(p, reason) sets the sync_status of p to IrrelevantPeer if  *)
(* and only if the reason is IrrelevantNetwork, always sets the            *)
(* connection_status of p to Disconnecting, and queues exactly one         *)
(* DisconnectPeer(p, reason), which the network service turns into exactly *)
(* one send_goodbye(p, reason) to the rpc behaviour.                       *)
(***************************************************************************)
C20_GoodbyeMarksAndDisconnects ==
    [][ /\ \A p \in Peers, reason \in GoodbyeReasons :
              Goodbye(p, reason) =>
                  /\ events' = Append(events, DisconnectPeer(p, reason))
                  /\ rpc_events' = rpc_events
                  /\ \A q \in Peers \ {p} : peer_db'[q] = peer_db[q]
                  /\ peer_db[p] # NoPeer =>
                         /\ peer_db'[p].connection_status.tag = "Disconnecting"
                         /\ peer_db'[p].sync_status =
                                (IF reason = "IrrelevantNetwork"
                                 THEN "IrrelevantPeer"
                                 ELSE peer_db[p].sync_status)
        /\ PeerManagerPoll =>
              IF pm_ret'.type = "GenerateEvent"
                    /\ pm_ret'.event.type = "DisconnectPeer"
              THEN /\ rpc_events' =
                          Append(rpc_events,
                              NotifyHandler(pm_ret'.event.peer_id, NotifyAny,
                                  [type |-> "Goodbye", request_id |-> "Internal",
                                   reason |-> pm_ret'.event.reason]))
                   /\ DisconnectPeers(events') = Tail(DisconnectPeers(events))
                   /\ pm_ret'.event = DisconnectPeers(events)[1]
              ELSE /\ Goodbyes(rpc_events') = Goodbyes(rpc_events)
                   /\ DisconnectPeers(events') = DisconnectPeers(events)
        /\ (\E p \in Peers : InboundConnection(p) \/ ConnectionClosed(p)) =>
              /\ Goodbyes(rpc_events') = Goodbyes(rpc_events)
              /\ DisconnectPeers(events') = DisconnectPeers(events)
      ]_vars

C20_Witness ==
    /\ peer_db["p1"] # NoPeer
    /\ peer_db["p1"].sync_status = "Unknown"
    /\ peer_db["p1"].connection_status.tag = "Disconnecting"
    /\ Len(Goodbyes(rpc_events)) = 1
    /\ Goodbyes(rpc_events)[1].peer_id = "p1"
    /\ Goodbyes(rpc_events)[1].event.reason = "Fault"
    /\ DisconnectPeers(events) = <<DisconnectPeer("p1", "ClientShutdown")>>
    /\ inputs = 3

\* the STATUS requests among the instructions for the handlers
StatusRequests(q) == SelectSeq(q, LAMBDA n : n.event.type = "Status")

(***************************************************************************)
(* C21: a STATUS request is sent upon connection establishment if and only *)
(* if the local node was the dialer. An outbound-established connection    *)
(* records the address, emits PeerConnectedOutgoing and causes exactly one *)
(* send_status(peer, local status); an inbound-established connection      *)
(* records the address, emits PeerConnectedIncoming and causes no STATUS.  *)
(***************************************************************************)
C21_StatusIffDialer ==
    [][ /\ \A p \in Peers :
              DialSucceeds(p) =>
                  /\ peer_db'[p] = PeerInfoNew(DialerAddress(p))
                  /\ events' = Append(events, PeerConnectedOutgoing(p))
        /\ \A p \in Peers :
              InboundConnection(p) =>
                  /\ peer_db'[p] = PeerInfoNew(SendBackAddress(p))
                  /\ events' = Append(events, PeerConnectedIncoming(p))
        /\ (pm_ret'.type = "GenerateEvent"
               /\ pm_ret'.event.type \in {"PeerConnectedOutgoing",
                                          "PeerConnectedIncoming"}) =>
              /\ pm_ret'.event = events[1]
              /\ events' = Tail(events)
        /\ StatusRequests(rpc_events') # StatusRequests(rpc_events) =>
              IF pm_ret'.type = "GenerateEvent"
              THEN /\ pm_ret'.event.type = "PeerConnectedOutgoing"
                   /\ rpc_events' =
                          Append(rpc_events,
                              NotifyHandler(pm_ret'.event.peer_id, NotifyAny,
                                  [type |-> "Status", request_id |-> "Internal",
                                   message |-> status_message(chain)]))
              ELSE RpcBehaviourPoll
        /\ (pm_ret'.type = "GenerateEvent"
               /\ pm_ret'.event.type = "PeerConnectedOutgoing") =>
              Len(StatusRequests(rpc_events'))
                  = Len(StatusRequests(rpc_events)) + 1
      ]_vars

C21_Witness ==
    /\ peer_db["p1"] # NoPeer
    /\ peer_db["p1"].listening_address = DialerAddress("p1")
    /\ peer_db["p2"] # NoPeer
    /\ peer_db["p2"].listening_address = SendBackAddress("p2")
    /\ events = <<>>
    /\ pm_ret = GenerateEvent(PeerConnectedIncoming("p2"))
    /\ Len(rpc_events) = 1
    /\ rpc_events[1].peer_id = "p1"
    /\ rpc_events[1].event.type = "Status"

C23_AtMostOneLookup ==
    [][ /\ active_queries <= 1
        /\ active_queries' <= 1
        /\ (PeerManagerPoll /\ pm_ret' = GenerateEvent(NeedMorePeers)) =>
              active_queries' = 1
        /\ (PeerManagerPoll /\ active_queries' # active_queries) =>
              /\ pm_ret' = GenerateEvent(NeedMorePeers)
              /\ active_queries = 0
      ]_vars

C23_Witness ==
    /\ active_queries = 1
    /\ pm_ret = GenerateEvent(NeedMorePeers)
    /\ peers_to_dial # <<>>
    /\ heartbeat = HEARTBEAT_INTERVAL * 3
    /\ inputs = 3

(***************************************************************************)
(* C24: the dial queue of a handler is served first in, first out.  A     *)
(* step changes the queue only by putting one request behind the queued   *)
(* ones or by taking the request at the front; the front is taken exactly *)
(* by a poll that returns OutboundSubstreamRequest, the request it returns *)
(* is that front entry, and the rest of the queue keeps its order.  (A    *)
(* poll that panics returns nothing.)                                      *)
(***************************************************************************)
C24_DialQueueFifo ==
    [][ /\ \/ dial_queue' = dial_queue
           \/ /\ Len(dial_queue') = Len(dial_queue) + 1
              /\ SubSeq(dial_queue', 1, Len(dial_queue)) = dial_queue
           \/ /\ dial_queue # <<>>
              /\ dial_queue' = Tail(dial_queue)
        /\ (Len(dial_queue') < Len(dial_queue))
               => poll_ret'.type = "OutboundSubstreamRequest"
        /\ (poll_ret'.type = "OutboundSubstreamRequest" /\ ~panicked')
               => /\ dial_queue # <<>>
                  /\ poll_ret'.request = Head(dial_queue).request
                  /\ dial_queue' = Tail(dial_queue)
                  /\ negotiating' =
                         Append(negotiating,
                                [request |-> Head(dial_queue).request,
                                 origin_id |-> Head(dial_queue).id])
      ]_vars

\* STATUS, a BlocksByRange request and GOODBYE were queued in this order:
\* STATUS has been offered, the other two wait in their order
C24_Witness ==
    /\ poll_ret = [type |-> "OutboundSubstreamRequest", request |-> "Status"]
    /\ Len(dial_queue) = 2
    /\ dial_queue[1].request = "BlocksByRange"
    /\ dial_queue[2].request = "Goodbye"

(***************************************************************************)
(* C25: no event caused by one peer reaches a todo!(): neither the sync   *)
(* manager task nor a connection handler panics, whatever the peers send. *)
(***************************************************************************)
C25_NoPeerEventPanics == ~sync_panicked /\ ~panicked

(***************************************************************************)
(* C26: a CloseConnection raised by the handler of one connection closes  *)
(* that connection only: when the swarm takes the signal from the rpc     *)
(* behaviour, at most one more connection of the peer starts to close, and *)
(* the connections of the other peers are left as they are.               *)
(***************************************************************************)
C26_ClosesThatConnectionOnly ==
    [][ (RpcBehaviourPoll /\ rpc_events[1].event.type = "CloseConnection")
            => /\ closing'[rpc_events[1].peer_id]
                      <= closing[rpc_events[1].peer_id] + 1
               /\ \A q \in Peers \ {rpc_events[1].peer_id} :
                      closing'[q] = closing[q]
      ]_vars

\* the peer ids PeerDB has a record for
PeerKeys(db) == {p \in Peers : db[p] # NoPeer}

(***************************************************************************)
(* C27: PeerDB has a record for a peer exactly when a                      *)
(* ConnectionEstablished has been reported for that peer, and no step      *)
(* removes a record: the set of keys only grows.                           *)
(***************************************************************************)
C27_KeysAreThePeersOnceConnected ==
    [][ /\ PeerKeys(peer_db) = connected_once
        /\ PeerKeys(peer_db') = connected_once'
        /\ PeerKeys(peer_db) \subseteq PeerKeys(peer_db')
      ]_vars

\* p1 connected and its last connection has closed: the record is kept;
\* p2 never completed a connection and has no record
C27_Witness ==
    /\ peer_db["p1"] # NoPeer
    /\ peer_db["p1"].connection_status.tag = "Disconnected"
    /\ established["p1"] = 0
    /\ peer_db["p2"] = NoPeer
    /\ dialing["p2"] > 0

(***************************************************************************)
(* C28: the inbound and the outbound SubstreamIds of a handler come from   *)
(* two counters, each going up by one per negotiated substream of its      *)
(* direction (an inbound one is the step that queues a Request event, an  *)
(* outbound one takes a substream out of negotiation).  Every key of       *)
(* inbound_substreams and of outbound_substreams                           *)
(* is below the counter of its direction, a substream is stored only under *)
(* the id just minted, and that id was not a key before: no insertion      *)
(* replaces an entry.                                                      *)
(***************************************************************************)
C28_SubstreamIdsNeverReused ==
    [][ /\ \A id \in DOMAIN inbound_substreams : id < inbound_substream_id
        /\ \A id \in DOMAIN outbound_substreams : id < outbound_substream_id
        /\ inbound_substream_id' \in
               {inbound_substream_id, inbound_substream_id + 1}
        /\ outbound_substream_id' \in
               {outbound_substream_id, outbound_substream_id + 1}
        /\ (Len(out_events') > Len(out_events))
               <=> inbound_substream_id' = inbound_substream_id + 1
        /\ (inbound_substream_id' = inbound_substream_id + 1)
               => /\ inbound_substream_id \in DOMAIN inbound_substreams'
                  /\ out_events'[Len(out_events')].substream_id
                         = inbound_substream_id
                  /\ outbound_substream_id' = outbound_substream_id
        /\ (outbound_substream_id' = outbound_substream_id + 1)
               => /\ Len(negotiating') = Len(negotiating) - 1
                  /\ inbound_substream_id' = inbound_substream_id
        /\ \A id \in DOMAIN inbound_substreams' :
               \/ id \in DOMAIN inbound_substreams
               \/ /\ id = inbound_substream_id
                  /\ inbound_substream_id' = id + 1
        /\ \A id \in DOMAIN outbound_substreams' :
               \/ /\ id \in DOMAIN outbound_substreams
                  /\ outbound_substreams'[id] = outbound_substreams[id]
               \/ /\ id \notin DOMAIN outbound_substreams
                  /\ id = outbound_substream_id
                  /\ outbound_substream_id' = id + 1
      ]_vars

\* both directions have handed out id 0, and the inbound one id 1 as well
C28_Witness ==
    /\ inbound_substream_id = 2
    /\ outbound_substream_id = 1
    /\ DOMAIN inbound_substreams = {0, 1}
    /\ DOMAIN outbound_substreams = {0}

\* the request ids of the SendRequest messages of a queue
RequestIdsOf(q) == [i \in 1..Len(q) |-> q[i].request_id]

\* the RangeSync ids from first up, count of them
RangeSyncIds(first, count) ==
    [i \in 1..count |-> [tag |-> "RangeSync", id |-> first + i - 1]]

(***************************************************************************)
(* C29: the sync network context numbers its requests 0, 1, 2, ... within  *)
(* the u32 range.  A step of range sync puts as many SendRequest messages  *)
(* on the network channel as it took ids, each carrying the next id as a   *)
(* RangeSync (sync-origin) id; the network service takes one message at a  *)
(* time from the channel and queues exactly one request for the rpc        *)
(* behaviour, with the same peer and request and the id wrapped as         *)
(* RequestId::Application.                                                 *)
(***************************************************************************)
C29_RequestIdsIncrease ==
    [][ /\ next_request_id >= 0
        /\ next_request_id' \div 65536 < 65536
        /\ next_request_id' >= next_request_id
        /\ IF OnNetworkMessage
           THEN /\ next_request_id' = next_request_id
                /\ network_send' = Tail(network_send)
                /\ rpc_events' =
                       Append(rpc_events,
                              NotifyHandler(Head(network_send).peer_id,
                                 NotifyAny,
                                 [type |-> "Request",
                                  request_id |->
                                      [tag |-> "Application",
                                       request_id |->
                                           Head(network_send).request_id],
                                  request |-> Head(network_send).request]))
           ELSE /\ Len(network_send') =
                       Len(network_send) + next_request_id' - next_request_id
                /\ SubSeq(network_send', 1, Len(network_send)) = network_send
                /\ SubSeq(RequestIdsOf(network_send'),
                          Len(network_send) + 1, Len(network_send'))
                     = RangeSyncIds(next_request_id,
                                    next_request_id' - next_request_id)
                /\ \A i \in 1..Len(network_send') :
                       network_send'[i].type = "SendRequest"
      ]_vars

\* three requests were numbered 0, 1 and 2; the first has reached the rpc
\* behaviour, the other two are on the channel
C29_Witness ==
    /\ next_request_id = 3
    /\ Len(network_send) = 2
    /\ network_send[1].request_id = [tag |-> "RangeSync", id |-> 1]
    /\ network_send[2].request_id = [tag |-> "RangeSync", id |-> 2]
    /\ Len(rpc_events) = 1
    /\ rpc_events[1].event.request_id =
           [tag |-> "Application",
            request_id |-> [tag |-> "RangeSync", id |-> 0]]

\* a poll that gets as far as driving the inbound substreams; poll_ret is
\* NoReturn after every call but a poll, which returns something or panics
PollDrivesInbound ==
    /\ poll_ret' # NoReturn \/ panicked' # panicked
    /\ ~DeadlineElapsed
    /\ dial_queue = <<>>
    /\ out_events = <<>>

\* send_response(substream_id, response) has queued the response
ResponseQueued(substream_id) ==
    /\ substream_id \in DOMAIN inbound_substreams'
    /\ inbound_substreams'[substream_id] =
           [inbound_substreams[substream_id] EXCEPT
               !.responses_to_send = Append(@, "Status")]

C31_OutboundStreamOutcomes ==
    [][ /\ (/\ poll_ret'.type = "NotifyBehaviour"
            /\ poll_ret'.event.type = "Response"
            /\ ~panicked')
               => /\ outbound_substreams' = outbound_substreams
                  /\ \E id \in DOMAIN outbound_substreams :
                         poll_ret'.event.response
                             = outbound_substreams[id].request
        /\ (DOMAIN outbound_substreams \ DOMAIN outbound_substreams' # {})
               => /\ poll_ret' = NotifyBehaviour(CloseConnection)
                  /\ Cardinality(DOMAIN outbound_substreams
                                     \ DOMAIN outbound_substreams') = 1
        /\ (/\ poll_ret' = NotifyBehaviour(CloseConnection)
            /\ ~DeadlineElapsed
            /\ ~panicked')
               => Cardinality(DOMAIN outbound_substreams
                                  \ DOMAIN outbound_substreams') = 1
        /\ \A id \in decode_errors' :
               /\ id \in DOMAIN outbound_substreams
               /\ id \in DOMAIN outbound_substreams'
               /\ outbound_substreams'[id] = outbound_substreams[id]
      ]_vars

\* one tracked stream gave a decode error, which was logged, and the poll
\* went on to another stream and returned its response: both are tracked
C31_Witness ==
    /\ decode_errors # {}
    /\ poll_ret.type = "NotifyBehaviour"
    /\ poll_ret.event.type = "Response"
    /\ Cardinality(DOMAIN outbound_substreams) = 2
    /\ decode_errors \subseteq DOMAIN outbound_substreams


(***************************************************************************)
(* The peer manager polled again and again while connections keep coming.  *)
(***************************************************************************)
\* events the peer manager holds while further connections arrive
MaxEvents == 2

\* FromSwarm::ConnectionEstablished, ConnectedPoint::Listener: a peer that
\* has connected before opens one more connection
ConnectionEstablishedAgain(peer_id) ==
    /\ peer_id \in connected_once
    /\ Len(events) < MaxEvents
    /\ established[peer_id] < MaxConnections
    /\ established' = [established EXCEPT ![peer_id] = @ + 1]
    /\ peer_db' = add_peer(peer_db, peer_id, SendBackAddress(peer_id))
    /\ events' = Append(events, PeerConnectedIncoming(peer_id))
    /\ pm_ret' = NoReturn
    /\ UNCHANGED <<heartbeat, status_peers, statusd_at, peers_to_dial,
                   dialing, sync_sender, rpc_events, inputs>>
    /\ UNCHANGED <<hvars, now, cvars, svars, dvars, wvars>>

NextPolling ==
    \/ \E p \in Peers : DialPeer(p)
    \/ \E p \in Peers : InboundConnection(p)
    \/ \E p \in Peers : ConnectionEstablishedAgain(p)
    \/ \E p \in Peers : ConnectionClosed(p)
    \/ \E p \in Peers, m \in NetStatuses : ReceivedStatusResponse(p, m)
    \/ PeerManagerPoll
    \/ \E d \in NetTickSteps : NetTick(d)

\* the swarm polls the peer manager again and again
SpecPolling == Init /\ [][NextPolling]_vars /\ WF_vars(PeerManagerPoll)

C32_Heartbeat ==
    (heartbeat <= now /\ need_more_peers)
        ~> (pm_ret = GenerateEvent(NeedMorePeers) \/ ~need_more_peers)

C32_Events == (events # <<>>) ~> (pm_ret.type = "GenerateEvent")

C32_Status ==
    \A p \in Peers :
        (p \in Expired)
            ~> (pm_ret = GenerateEvent(SendStatus(p))
                    \/ status_peers[p] = NoTimer)

C32_Dial == (peers_to_dial # <<>>) ~> (pm_ret.type = "Dial")


C33_OnlyLastCloseDisconnects ==
    [][\A p \in Peers :
          /\ established'[p] < established[p] =>
                IF established'[p] > 0
                THEN /\ status_peers' = status_peers
                     /\ peer_db' = peer_db
                ELSE /\ status_peers' =
                            [status_peers EXCEPT ![p] = NoTimer]
                     /\ peer_db' =
                            [peer_db EXCEPT ![p].connection_status =
                                [tag |-> "Disconnected", since |-> now]]
          /\ (/\ peer_db'[p] # peer_db[p]
              /\ peer_db'[p] # NoPeer
              /\ peer_db'[p].connection_status.tag = "Disconnected")
                => /\ established[p] = 1
                   /\ established'[p] = 0
    ]_vars

\* a peer that was statusd has lost its last connection after the clock moved
C33_Witness ==
    \E p \in Peers :
        /\ established[p] = 0
        /\ peer_db[p] # NoPeer
        /\ peer_db[p].connection_status =
               [tag |-> "Disconnected", since |-> now]
        /\ now > 0
        /\ statusd_at[p] # NoTimer
        /\ status_peers[p] = NoTimer


(***************************************************************************)
(* Discovery finding several peers at a time.                              *)
(***************************************************************************)
NextFoundPeers ==
    \/ \E peer_ids \in FoundLists : FoundPeers(peer_ids)
    \/ \E p \in Peers : InboundConnection(p)
    \/ \E p \in Peers : ConnectionClosed(p)
    \/ PeerManagerPoll

SpecFoundPeers == Init /\ [][NextFoundPeers]_vars

(***************************************************************************)
(* C34: on FoundPeers(peers) every peer of the list is put on the dial     *)
(* queue, behind the requests already queued and in list order, whether or *)
(* not more peers are needed; the lookup that resolved is replaced by a    *)
(* new one if and only if need_more_peers() holds at that moment.          *)
(***************************************************************************)
C34_FoundPeersAllQueued ==
    [][(inputs' # inputs /\ active_queries > 0
            /\ established' = established) =>
          /\ peers_to_dial' = peers_to_dial \o found_peers'
          /\ found_peers' \in FoundLists
          /\ active_queries' =
                 IF need_more_peers THEN active_queries
                 ELSE active_queries - 1
    ]_vars

\* two peers were found while no more peers were needed: both are queued,
\* in list order, and no lookup replaced the one that resolved
C34_Witness ==
    /\ ~need_more_peers
    /\ found_peers = <<"p2", "p1">>
    /\ peers_to_dial = <<"p2", "p1">>
    /\ active_queries = 0
    /\ pm_ret = NoReturn


(***************************************************************************)
(* C35: next_batch never hands out an epoch whose start slot is at or      *)
(* beyond target_head_slot: every batch of a chain, and every batch sent,  *)
(* starts below the target; each call moves to_be_downloaded on by         *)
(* EPOCHS_PER_BATCH for every batch it creates and never back, so the      *)
(* batches of a chain are finitely many and request_batches ends; and a    *)
(* chain for which next_batch returns None gets no further batch.          *)
(***************************************************************************)
C35_BatchesBelowTarget ==
    [][\A i \in DOMAIN finalized_chains' :
          LET c == finalized_chains'[i]
          IN  /\ \A e \in DOMAIN c.batches :
                     e * SLOTS_PER_EPOCH < c.target_head_slot
              /\ \A k \in DOMAIN batch_log' :
                     batch_log'[k].chain = i =>
                         batch_log'[k].epoch * SLOTS_PER_EPOCH
                             < c.target_head_slot
              /\ i \in DOMAIN finalized_chains =>
                     LET old == finalized_chains[i]
                         created == DOMAIN c.batches \ DOMAIN old.batches
                     IN  /\ DOMAIN old.batches \subseteq DOMAIN c.batches
                         /\ c.to_be_downloaded =
                                old.to_be_downloaded
                                    + EPOCHS_PER_BATCH * Cardinality(created)
                         /\ next_batch(old).epoch = NoEpoch =>
                                /\ created = {}
                                /\ next_batch(c).epoch = NoEpoch
    ]_vars

\* a syncing chain with two peers has created every batch below its target,
\* the last one at the epoch of the target, and next_batch returns None
C35_Witness ==
    \E i \in DOMAIN finalized_chains :
        LET c == finalized_chains[i]
        IN  /\ c.state = "Syncing"
            /\ c.target_head_slot = SLOTS_PER_EPOCH * MaxHeadEpoch + 1
            /\ Cardinality(DOMAIN c.peers) = 2
            /\ Cardinality(DOMAIN c.batches) >= 2
            /\ c.to_be_downloaded * SLOTS_PER_EPOCH >= c.target_head_slot
            /\ next_batch(c).epoch = NoEpoch
            /\ Len(batch_log) = Cardinality(DOMAIN c.batches)


(***************************************************************************)
(* C36: no batch is created for an epoch earlier than the chain's current  *)
(* start_epoch: to_be_downloaded >= start_epoch holds for every chain      *)
(* after every operation, also after start_syncing has advanced            *)
(* start_epoch.                                                            *)
(***************************************************************************)
C36_ToBeDownloadedNotBeforeStart ==
    [][\A i \in DOMAIN finalized_chains' :
          LET c == finalized_chains'[i]
              created == IF i \in DOMAIN finalized_chains
                         THEN DOMAIN c.batches
                                  \ DOMAIN finalized_chains[i].batches
                         ELSE DOMAIN c.batches
          IN  /\ c.to_be_downloaded >= c.start_epoch
              /\ \A e \in created : e >= c.start_epoch
    ]_vars


(***************************************************************************)
(* C37: at most one SyncingChain of the collection is in state Syncing;    *)
(* while the collection state is Syncing(id) the chain stored under id is  *)
(* that chain; and every batch requested is one of the selected chain, so  *)
(* a chain that is no longer the selected one requests no batches.         *)
(***************************************************************************)
C37_OneChainSyncing ==
    [][/\ Cardinality({i \in DOMAIN finalized_chains' :
                          finalized_chains'[i].state = "Syncing"}) <= 1
       /\ collection_state'.tag = "Syncing" =>
              /\ collection_state'.id \in DOMAIN finalized_chains'
              /\ finalized_chains'[collection_state'.id].id
                     = collection_state'.id
       /\ \A k \in (Len(batch_log) + 1)..Len(batch_log') :
              /\ collection_state'.tag = "Syncing"
              /\ batch_log'[k].chain = collection_state'.id
    ]_vars


(***************************************************************************)
(* STATUS responses the rpc behaviour still holds when the connection      *)
(* they came on has closed.                                                *)
(***************************************************************************)
\* Network::handle_rpc_event, RpcEvent::ReceivedResponse with a STATUS that
\* the rpc behaviour queued before the last connection of the peer closed:
\* the queue is not cleared on ConnectionClosed
LateStatusResponse(peer_id, message) ==
    /\ inputs < MaxInputs
    /\ inputs' = inputs + 1
    /\ peer_id \in connected_once
    /\ established[peer_id] = 0
    /\ chain.slot # NoSlot
    /\ validate_status_message(peer_id, message)
    /\ IF check_peer_relevance(chain, message) = TRUE
       THEN statusd_peer(peer_id)
       ELSE UNCHANGED <<status_peers, statusd_at>>
    /\ pm_ret' = NoReturn
    /\ UNCHANGED <<heartbeat, peers_to_dial, established, dialing,
                   rpc_events>>
    /\ UNCHANGED <<hvars, now, cvars, svars, dvars, wvars>>

NextLateStatus ==
    \/ \E p \in Peers : InboundConnection(p)
    \/ \E p \in Peers : ConnectionClosed(p)
    \/ \E p \in Peers, m \in NetStatuses : ReceivedStatusResponse(p, m)
    \/ \E p \in Peers, m \in NetStatuses : LateStatusResponse(p, m)
    \/ PeerManagerPoll
    \/ \E d \in NetTickSteps : NetTick(d)

SpecLateStatus == Init /\ [][NextLateStatus]_vars

\* C38: every peer in the re-status timer set has an established
\* connection, and a SendStatus(p) the peer manager's poll returns is for a
\* peer with an established connection, however ConnectionClosed events and
\* late STATUS messages interleave.
C38_StatusOnlyForConnected ==
    \A p \in Peers :
        /\ status_peers[p] # NoTimer => established[p] > 0
        /\ pm_ret = GenerateEvent(SendStatus(p)) => established[p] > 0


(***************************************************************************)
(* The network task handling STATUS messages while the sync manager task   *)
(* receives the AddPeer operations it was sent.                            *)
(***************************************************************************)
NextSyncRace ==
    \/ \E p \in Peers : InboundConnection(p)
    \/ \E p \in Peers : ConnectionClosed(p)
    \/ \E p \in Peers, m \in NetStatuses : ReceivedStatusResponse(p, m)
    \/ SyncManagerRecv

SpecSyncRace == Init /\ [][NextSyncRace]_vars

\* C39: once goodbye(p, IrrelevantNetwork) has set the sync_status of p to
\* IrrelevantPeer, the sync manager's handling of a queued AddPeer does not
\* change it while the connection lasts, however the two tasks interleave.
C39_IrrelevantPeerStays ==
    [][\A p \in Peers :
          (/\ peer_db[p] # NoPeer
           /\ peer_db[p].sync_status = "IrrelevantPeer"
           /\ peer_db[p].connection_status.tag = "Disconnecting"
           /\ established[p] > 0
           /\ Len(sync_sender') < Len(sync_sender))
              => peer_db'[p].sync_status = "IrrelevantPeer"
    ]_vars


(***************************************************************************)
(* The handler of one connection polled again and again.                   *)
(***************************************************************************)
\* the swarm polls the handler again and again
SpecSubstreamsPolled ==
    Init /\ [][NextSubstreams]_vars /\ WF_vars(Poll)

\* C40: every inbound substream entry the handler creates is eventually
\* removed from inbound_substreams while the connection lives (the handler
\* is Active and has not panicked), whatever the request was and whether or
\* not a response is ever given to the handler.
C40_InboundSubstreamsRemoved ==
    \A id \in 0..(MaxSubstreams - 1) :
        (id \in DOMAIN inbound_substreams)
            ~> (\/ id \notin DOMAIN inbound_substreams
                \/ state # "Active"
                \/ panicked)

====
